---------------------------- MODULE Spec2Model ----------------------------
(***************************************************************************)
(* Model of the sunsol-demo consumption-history OCR page                   *)
(* (src/app/page.tsx, the singleton-worker variant, lines 936-2010, with   *)
(* the variant parser of src/unnamed/part_002).                            *)
(*                                                                         *)
(* Three specifications share the variables:                               *)
(*   SpecParse   the pure function pickCandidateNumber on bounded texts;   *)
(*   SpecFusion  one pipeline run over a chart of up to MaxBars bars;      *)
(*   Spec        the page: concurrent handleFile / reprocesar / clearAll   *)
(*               runs, the module-level singleton worker, and the unmount  *)
(*               cleanup, interleaved at every await.                      *)
(*                                                                         *)
(* A value that is "number | null" in the source is a sequence here:       *)
(* None = << >> and Some(v) = << v >>.  A text is a sequence of            *)
(* one-character strings.                                                  *)
(***************************************************************************)
EXTENDS Integers, Sequences, FiniteSets, TLC

VARIABLES
    raw,            \* SpecParse: the OCR raw text under test
    parsed,         \* SpecParse: the results of the two parsers on raw
    chart,          \* file -> the chart printed on that image (bars and labels)
    pc,             \* run -> position of the run (the await it is suspended at)
    kind,           \* run -> "handleFile" | "reprocesar" | "clearAll"
    file,           \* run -> the image the run works on
    myReq,          \* run -> the request number it took (0: none yet)
    segs,           \* run -> the bar segments submitted to recognition
    idx,            \* run -> loop index i of the ROI loop (1-based)
    candidates,     \* run -> the candidates pushed so far
    handle,         \* run -> the worker ensureTesseractWorker resolved to
    waitsOn,        \* run -> the init promise the run awaits (0: none)
    owner,          \* run -> TRUE iff the run's ensure call created that promise
    result,         \* run -> the OcrRunResult returned by runLumaBarLabelOcr
    outcome,        \* run -> how the run ended, as seen on the page
    fault,          \* run -> the exception the run hit ("" if none)
    reqRef,         \* reqRef.current
    page,           \* the React state of Page
    wSlot,          \* module-level _worker
    pSlot,          \* module-level _workerPromise
    promises,       \* init promise id -> state of the async init closure
    workers,        \* worker id -> state of the engine instance
    term,           \* position of terminateTesseractWorker
    hist,           \* history of the behaviour, read only by the properties
    busy,           \* processFile page (part_002): the busy flag
    ocr,            \* processFile page: the OcrSummary state
    proc,           \* processFile page: the run in progress and its input
    lum,            \* part_003: the label tokens and what the extraction made of them
    zone,           \* detectGraphZone: its input and the rect it returned
    det,            \* detectBars: the active columns and the segments returned
    wb,             \* the page guarded by workerBusyRef (part_002, lines 400-600)
    ob              \* the per-bar OCR page (page.tsx, lines 120-700): handleFile and ocrBars

vars == << raw, parsed, chart, pc, kind, file, myReq, segs, idx, candidates,
           handle, waitsOn, owner, result, outcome, fault, reqRef, page,
           wSlot, pSlot, promises, workers, term, hist, busy, ocr, proc,
           lum, zone, det, wb, ob >>

(***************************************************************************)
(* Bounds of the model.                                                    *)
(***************************************************************************)
\* longest OCR raw text enumerated by SpecParse
MaxRawLen == 5
\* most bars of a chart of SpecFusion (a bill prints up to 13 months)
MaxBars == 13
\* most labels of a chart that differ from the primary label
MaxOdd == 1
\* number of user actions (upload, reprocesar, clearAll) of a behaviour of the page
MaxRuns == 2
\* most failures (decode, init, setParameters, recognize) injected in a behaviour
MaxFaults == 1

(***************************************************************************)
(* number | null                                                           *)
(***************************************************************************)
None == << >>
Some(v) == << v >>

Min(a, b) == IF a <= b THEN a ELSE b
Max(a, b) == IF a >= b THEN a ELSE b

(***************************************************************************)
(* Texts.  A text is a sequence of one-character strings.                  *)
(***************************************************************************)
DigitChars == {"0", "1", "2", "3", "4", "5", "6", "7", "8", "9"}

\* the characters SpecParse builds raw texts from (digits and the blank)
Alphabet == {"0", "2", "3", "4", "5", "8", " "}

DigitVal(c) ==
    CASE c = "0" -> 0 [] c = "1" -> 1 [] c = "2" -> 2 [] c = "3" -> 3
      [] c = "4" -> 4 [] c = "5" -> 5 [] c = "6" -> 6 [] c = "7" -> 7
      [] c = "8" -> 8 [] c = "9" -> 9

IsDigit(c) == c \in DigitChars

\* Number(t) for a non-empty string of decimal digits
RECURSIVE NumberOf(_)
NumberOf(t) ==
    IF t = << >> THEN 0
    ELSE 10 * NumberOf(SubSeq(t, 1, Len(t) - 1)) + DigitVal(t[Len(t)])

\* raw.replace(/[^\d]/g, "")
parseDigitsOnlyMutFirstRun(text) ==
    LET stops == {i \in 1..Len(text) : ~IsDigit(text[i])}
    IN  IF stops = {} THEN text
        ELSE SubSeq(text, 1, (CHOOSE i \in stops : \A j \in stops : i <= j) - 1)
parseDigitsOnly(text) == SelectSeq(text, IsDigit)

\* digits.slice(-k)
SliceLast(s, k) == SubSeq(s, Max(1, Len(s) - k + 1), Len(s))

\* the domain prior: monthly residential consumption, kWh
MinKwh == 20
MaxKwh == 3000
\* a digit run longer than this is tried by its suffixes
MaxDigits == 4

\* n >= 20 && n <= 3000
InRangeMutNoUpper(n) == n >= MinKwh
InRange(n) == n >= MinKwh /\ n <= MaxKwh

\* for (const t of tries) { const n = Number(t); if (... in range) return n; }
RECURSIVE FirstInRange(_)
FirstInRange(tries) ==
    IF tries = << >> THEN None
    ELSE IF InRange(NumberOf(Head(tries))) THEN Some(NumberOf(Head(tries)))
    ELSE FirstInRange(Tail(tries))

\* the candidates tried for a digit string
TriesMutWholeOnly(digits) == << digits >>
Tries(digits) ==
    IF Len(digits) <= MaxDigits THEN << digits >>
    ELSE << SliceLast(digits, 4), SliceLast(digits, 3), SliceLast(digits, 2) >>

\* page.tsx: pickCandidateNumber
pickCandidateNumber(rawText) ==
    LET digits == parseDigitsOnly(rawText)
    IN  IF digits = << >> THEN None ELSE FirstInRange(Tries(digits))

\* length of the run of digits of s that starts at position i
RECURSIVE DigitRunLen(_, _)
DigitRunLen(s, i) ==
    IF i > Len(s) \/ ~IsDigit(s[i]) THEN 0 ELSE 1 + DigitRunLen(s, i + 1)

\* rawText.match(/\d{2,4}/g): leftmost, greedy, non-overlapping
RECURSIVE MatchGroups(_, _)
MatchGroups(s, i) ==
    IF i > Len(s) THEN << >>
    ELSE LET k == Min(DigitRunLen(s, i), 4)
         IN  IF k >= 2 THEN << SubSeq(s, i, i + k - 1) >> \o MatchGroups(s, i + k)
             ELSE MatchGroups(s, i + 1)

SeqMap(Op(_), s) == [j \in 1..Len(s) |-> Op(s[j])]

IsThreeDigits(n) == n >= 100 /\ n <= 999

\* part_002: pickCandidateNumber (groups of 2-4 digits first, then the suffixes)
pickCandidateNumberGroups(rawText) ==
    LET nums  == SelectSeq(SeqMap(NumberOf, MatchGroups(rawText, 1)), InRange)
        three == SelectSeq(nums, IsThreeDigits)
        digits == parseDigitsOnly(rawText)
    IN  IF rawText = << >> THEN None
        ELSE IF nums # << >> THEN (IF three # << >> THEN Some(three[1]) ELSE Some(nums[1]))
        ELSE IF digits = << >> THEN None
        ELSE FirstInRange(Tries(digits))

\* every text of at most n characters over Alphabet
TextsUpTo(n) == UNION {[1..k -> Alphabet] : k \in 0..n}

(***************************************************************************)
(* Charts.  The image of a file is abstracted to what the pipeline reads   *)
(* from it: the segments findBarSegments returns (left to right, disjoint, *)
(* at least 6 px wide, more than 6 px apart) and, for each bar, the answer *)
(* of the recognition engine on the label region above it.                 *)
(***************************************************************************)
\* answers of the engine: {text, confidence}
PrimaryAnswer == [text |-> << "8", " ", "2", "5" >>, conf |-> 90]
OddAnswers ==
    { [text |-> << "3", "0", "1" >>, conf |-> 40],
      [text |-> << >>, conf |-> 0] }
Answers == {PrimaryAnswer} \cup OddAnswers

\* the segment of the j-th bar; the bar at position weak is faint
BarAt(j, weak) ==
    [x0 |-> 20 * j, x1 |-> 20 * j + 9, strength |-> IF j = weak THEN 30 ELSE 60]

\* the sets of at most k positions among 1..n
RECURSIVE PosSets(_, _)
PosSets(n, k) ==
    IF k = 0 THEN {{}}
    ELSE LET smaller == PosSets(n, k - 1)
         IN  smaller \cup {S \cup {j} : S \in smaller, j \in 1..n}

\* label assignments of n bars with at most k labels off the primary one
LabelsOf(n, k) ==
    UNION { { [j \in 1..n |-> IF j \in S THEN a[j] ELSE PrimaryAnswer] :
                a \in [S -> OddAnswers] } : S \in PosSets(n, k) }

ChartsOf(n, k, weaks) ==
    { [bars |-> [j \in 1..n |-> BarAt(j, w)], labels |-> l] :
        w \in weaks, l \in LabelsOf(n, k) }

\* findBarSegments (its result on the image of chart c)
findBarSegments(c) == c.bars

\* the answer of the engine on the ROI above segment seg of chart c
AnswerAt(c, seg) ==
    c.labels[CHOOSE j \in 1..Len(c.bars) : c.bars[j].x0 = seg.x0]

(***************************************************************************)
(* runLumaBarLabelOcr: the pure parts.                                     *)
(***************************************************************************)
\* at most this many segments are kept (the strongest)
SegCap == 18
\* only the most recent (rightmost) bars are recognized and used
MonthsCap == 12
\* fewer values than this is insufficient
MinMonths == 4

\* Array.prototype.sort with a numeric key: stable, ascending by key
SortByKey(s, keys) ==
    LET n == Len(s)
        rank(i) == Cardinality({j \in 1..n :
                        keys[j] < keys[i] \/ (keys[j] = keys[i] /\ j < i)}) + 1
    IN  [k \in 1..n |-> s[CHOOSE i \in 1..n : rank(i) = k]]

\* segs.sort((a, b) => b.strength - a.strength)
SortByStrengthDesc(s) == SortByKey(s, [j \in 1..Len(s) |-> 0 - s[j].strength])
\* segs.sort((a, b) => a.x0 - b.x0)
SortByX0(s) == SortByKey(s, [j \in 1..Len(s) |-> s[j].x0])

\* lines 1407-1413: the segments submitted to recognition
SubmittedSegsMutNoCap(fnd) == SortByX0(fnd)
SubmittedSegs(fnd) ==
    LET kept    == IF Len(fnd) > SegCap
                   THEN SubSeq(SortByStrengthDesc(fnd), 1, SegCap) ELSE fnd
        ordered == SortByX0(kept)
    IN  IF Len(ordered) > MonthsCap THEN SliceLast(ordered, MonthsCap) ELSE ordered

\* xCenter = (seg.x0 + seg.x1) / 2, kept in half pixels
XCenter(seg) == seg.x0 + seg.x1

\* ocrSingleNumber: what it returns for the engine's answer
ocrSingleNumber(ans) ==
    [n |-> pickCandidateNumber(ans.text), text |-> ans.text, conf |-> ans.conf]

\* lines 1476-1479: if (value != null) candidates.push(...)
PushCandidate(cands, seg, out) ==
    IF out.n # None
    THEN Append(cands, [xCenter |-> XCenter(seg), value |-> out.n[1],
                        conf |-> out.conf, raw |-> out.text])
    ELSE cands

\* candidates.sort((a, b) => a.xCenter - b.xCenter)
SortCandidatesMutByValue(cands) ==
    SortByKey(cands, [j \in 1..Len(cands) |-> cands[j].value])
SortCandidates(cands) ==
    SortByKey(cands, [j \in 1..Len(cands) |-> cands[j].xCenter])

RECURSIVE SumSeq(_)
SumSeq(s) == IF s = << >> THEN 0 ELSE Head(s) + SumSeq(Tail(s))

\* a rational number num / den, den > 0
Frac(num, den) == [num |-> num, den |-> den]

\* Math.round of a non-negative rational: the nearest integer, halves up
MathRound(q) == (2 * q.num + q.den) \div (2 * q.den)

\* const annualReal = usedLast12.length >= 12
annualRealMutStrict(n) == n > MonthsCap
annualReal(n) == n >= MonthsCap

\* detectedAll.length > 12 ? detectedAll.slice(-12) : detectedAll
UsedLast12(detectedAll) ==
    IF Len(detectedAll) > MonthsCap THEN SliceLast(detectedAll, MonthsCap)
    ELSE detectedAll

\* lines 1484-1526: the OcrRunResult built from the candidates
BuildResult(cands) ==
    LET ordered     == SortCandidates(cands)
        detectedAll == [j \in 1..Len(ordered) |-> ordered[j].value]
        usedLast12  == UsedLast12(detectedAll)
        confAvg     == IF Len(ordered) > 0
                       THEN Frac(SumSeq([j \in 1..Len(ordered) |-> ordered[j].conf]),
                                 Len(ordered))
                       ELSE Frac(0, 1)
        n           == Len(usedLast12)
        sum         == SumSeq(usedLast12)
    IN  IF n < MinMonths
        THEN [detectedAll |-> detectedAll, usedLast12 |-> usedLast12,
              monthsUsed |-> n, avgMonthly |-> Frac(0, 1), annualKwh |-> 0,
              estimatedAnnual |-> TRUE, confidenceAvg |-> confAvg]
        ELSE [detectedAll |-> detectedAll, usedLast12 |-> usedLast12,
              monthsUsed |-> n, avgMonthly |-> Frac(sum, n),
              annualKwh |-> MathRound(IF annualReal(n) THEN Frac(sum, 1)
                                      ELSE Frac(12 * sum, n)),
              estimatedAnnual |-> ~annualReal(n), confidenceAvg |-> confAvg]

(***************************************************************************)
(* The page (Page, lines 1530-1746) and the module-level worker slots.     *)
(***************************************************************************)
Runs == 1..MaxRuns
\* a file is named by the run that uploaded it
Files == 1..MaxRuns
\* useState<string>(""): no file name, no preview
NoFile == 0

\* the awaits of the async closure of ensureTesseractWorker, in order
InitStages ==
    << "import", "createWorker", "load", "loadLanguage", "initialize",
       "reinitialize", "setParameters" >>

PageInit ==
    [rawFileName |-> NoFile, rawPreview |-> NoFile, graphPreview |-> NoFile,
     labelsPreview |-> NoFile, ocrStatus |-> "", ocrError |-> "",
     detectedAll |-> << >>, usedLast12 |-> << >>, monthsUsed |-> 0,
     avgMonthlyOcr |-> None, annualOcr |-> None, estimatedAnnual |-> FALSE,
     confidenceAvg |-> Frac(0, 1), manualMonthly |-> None]

\* what the user types into the monthly-kWh field (None: the empty field)
ManualInputs == {None, Some(0), Some(600)}

\* const effectiveMonthly = useMemo(...) (lines 1577-1581), as a rational
effectiveMonthly(pg) ==
    IF pg.manualMonthly # None THEN Frac(pg.manualMonthly[1], 1)
    ELSE IF pg.avgMonthlyOcr # None THEN pg.avgMonthlyOcr[1]
    ELSE Frac(0, 1)

\* sizing.annualKwh (line 1584), as a rational
sizingAnnualKwh(pg) ==
    IF pg.annualOcr # None /\ pg.annualOcr[1] > 0 THEN Frac(pg.annualOcr[1], 1)
    ELSE IF effectiveMonthly(pg).num > 0
    THEN Frac(12 * effectiveMonthly(pg).num, effectiveMonthly(pg).den)
    ELSE Frac(0, 1)

\* lines 1612-1621: the resets at the start of handleFile
ResetOutputs(pg) ==
    [pg EXCEPT !.ocrError = "", !.ocrStatus = "", !.detectedAll = << >>,
               !.usedLast12 = << >>, !.monthsUsed = 0, !.avgMonthlyOcr = None,
               !.annualOcr = None, !.estimatedAnnual = FALSE,
               !.confidenceAvg = Frac(0, 1)]

\* setAvgMonthlyOcr(result.monthsUsed >= 4 ? result.avgMonthly : null)
ExposedAvgMutAlways(res) == Some(res.avgMonthly)
ExposedAvg(res) ==
    IF res.monthsUsed >= MinMonths THEN Some(res.avgMonthly) ELSE None
\* setAnnualOcr(result.monthsUsed >= 4 ? result.annualKwh : null)
ExposedAnnual(res) ==
    IF res.monthsUsed >= MinMonths THEN Some(res.annualKwh) ELSE None

\* lines 1645-1663 (handleFile) and 1721-1739 (reprocesar): the commit
CommitPage(pg, f, res) ==
    [pg EXCEPT !.graphPreview = f, !.labelsPreview = f,
               !.detectedAll = res.detectedAll, !.usedLast12 = res.usedLast12,
               !.monthsUsed = res.monthsUsed,
               !.avgMonthlyOcr = ExposedAvg(res),
               !.annualOcr = ExposedAnnual(res),
               !.estimatedAnnual = res.estimatedAnnual,
               !.confidenceAvg = res.confidenceAvg,
               !.ocrError = IF res.monthsUsed < MinMonths THEN "insufficient" ELSE @,
               !.ocrStatus = IF res.monthsUsed < MinMonths THEN @ ELSE "ready"]

\* lines 1664-1668 and 1740-1744: the catch of handleFile and of reprocesar
CatchPage(pg, canceled, msg) ==
    IF canceled THEN pg ELSE [pg EXCEPT !.ocrError = msg, !.ocrStatus = ""]

\* const isCanceled = () => reqRef.current !== myReq
isCanceled(r) == reqRef # myReq[r]

\* faults: the failures injected so far; superseded: the runs that were in
\* flight when a later upload started; calls: run -> the x0 of the segments
\* whose ROI the run passed to worker.recognize, in the order of the calls
HistInit ==
    [faults |-> 0, superseded |-> {}, calls |-> [r \in Runs |-> << >>],
     silent |-> FALSE]

NoPromise == [state |-> "unused", stage |-> 0, cdn |-> FALSE]

\* part_002, useState<OcrSummary>: the summary before any run
OcrIdle ==
    [detectedAll |-> << >>, used12MostRecent |-> << >>, monthsUsed |-> 0,
     annualKwh |-> Frac(0, 1), avgMonthlyKwh |-> Frac(0, 1),
     confidencePct |-> Frac(0, 1), status |-> "idle"]

\* no processFile run yet: pc is the await the run is suspended at, reads
\* what ocrLumaBarLabels returns for its image, runs the runs started
ProcIdle == [pc |-> "idle", reads |-> << >>, runs |-> 0]

\* part_003: nothing extracted yet
LumIdle ==
    [tokens |-> << >>, done |-> FALSE, deduped |-> << >>,
     valuesDetected |-> << >>, valuesUsed |-> << >>, ok |-> FALSE]

\* detectGraphZone not called yet
ZoneIdle == [inp |-> << >>, done |-> FALSE, rect |-> << >>]

\* detectBars not called yet
DetIdle == [runs |-> << >>, toEnd |-> FALSE, done |-> FALSE, segments |-> << >>]

\* the page guarded by workerBusyRef before any pick.  A file is a number
\* from 1 (0: none); an output is written as the file whose run set it (0:
\* empty, as resetOcrOutputs or the initial state leaves it).  pc is the
\* await runOcrFromFile is suspended at, reads what recognition makes of
\* the file in flight
WbIdle ==
    [fileName |-> 0, pagePreviewUrl |-> 0, processing |-> FALSE,
     workerBusy |-> FALSE, pc |-> "idle", inFlight |-> 0, reads |-> "",
     avgMonthlyKwh |-> 0, annualKwh |-> 0, monthsUsed |-> 0, ocrMsg |-> 0,
     picks |-> 0]

\* the per-bar OCR page before any file.  rois holds, for each label ROI
\* built above a bar, what worker.recognize makes of it; worker is the state
\* of the worker ocrBars creates; the averages are kept in hundredths
ObIdle ==
    [pc |-> "idle", rois |-> << >>, i |-> 0, out |-> << >>,
     worker |-> "none", ocrBusy |-> FALSE, ocrError |-> "",
     commercialFlag |-> FALSE, valuesDetectedAll |-> << >>,
     valuesUsed12 |-> << >>, ocrMonthsUsed |-> 0, ocrMonthlyAvg |-> 0,
     ocrAnnual |-> 0, ocrConfidence |-> 0]

\* the programs beside the page are at rest
InitSide ==
    /\ lum = LumIdle
    /\ zone = ZoneIdle
    /\ det = DetIdle
    /\ wb = WbIdle
    /\ ob = ObIdle

\* the state every specification starts from, except raw, parsed and chart
InitPage ==
    /\ pc = [r \in Runs |-> "idle"]
    /\ kind = [r \in Runs |-> ""]
    /\ file = [r \in Runs |-> NoFile]
    /\ myReq = [r \in Runs |-> 0]
    /\ segs = [r \in Runs |-> << >>]
    /\ idx = [r \in Runs |-> 0]
    /\ candidates = [r \in Runs |-> << >>]
    /\ handle = [r \in Runs |-> 0]
    /\ waitsOn = [r \in Runs |-> 0]
    /\ owner = [r \in Runs |-> FALSE]
    /\ result = [r \in Runs |-> None]
    /\ outcome = [r \in Runs |-> ""]
    /\ fault = [r \in Runs |-> ""]
    /\ reqRef = 0
    /\ page = PageInit
    /\ wSlot = None
    /\ pSlot = None
    /\ promises = [p \in Runs |-> NoPromise]
    /\ workers = [w \in Runs |-> "none"]
    /\ term = "idle"
    /\ hist = HistInit
    /\ busy = FALSE
    /\ ocr = OcrIdle
    /\ proc = ProcIdle

runVars == << pc, kind, file, myReq, segs, idx, candidates, handle, waitsOn,
              owner, result, outcome, fault >>
workerVars == << wSlot, pSlot, promises, workers >>
parseVars == << raw, parsed >>
procVars == << busy, ocr, proc >>
sideVars == << lum, zone, det, wb, ob >>

(***************************************************************************)
(* ensureTesseractWorker (lines 1287-1347)                                 *)
(***************************************************************************)
\* if (_worker) return _worker;
ensureReusesWorker == wSlot # None
\* if (_workerPromise) return _workerPromise;
ensureReusesPromiseMutNever == FALSE
ensureReusesPromise == pSlot # None

\* the next unused init promise (one async closure per promise)
NextPromise == Cardinality({p \in Runs : promises[p].state # "unused"}) + 1

\* the synchronous part of the call made by run r, up to its first await
EnsureCall(r) ==
    IF ensureReusesWorker
    THEN /\ handle' = [handle EXCEPT ![r] = wSlot[1]]
         /\ waitsOn' = [waitsOn EXCEPT ![r] = 0]
         /\ UNCHANGED << owner, pSlot, promises >>
    ELSE IF ensureReusesPromise
    THEN /\ waitsOn' = [waitsOn EXCEPT ![r] = pSlot[1]]
         /\ UNCHANGED << handle, owner, pSlot, promises >>
    ELSE /\ promises' = [promises EXCEPT ![NextPromise] =
                            [state |-> "pending", stage |-> 1, cdn |-> FALSE]]
         /\ pSlot' = Some(NextPromise)
         /\ waitsOn' = [waitsOn EXCEPT ![r] = NextPromise]
         /\ owner' = [owner EXCEPT ![r] = TRUE]
         /\ UNCHANGED handle

\* "_worker = worker" (line 1336) comes after the last await of the closure
PublishesWorkerMutEarly(st) == InitStages[st] = "createWorker"
PublishesWorker(st) == st = Len(InitStages)

\* one await of the init closure of promise p completes; the worker it
\* creates carries the promise's number
InitStep(p) ==
    /\ promises[p].state = "pending"
    /\ LET st == promises[p].stage
       IN  /\ IF st = Len(InitStages)
              THEN promises' = [promises EXCEPT ![p].state = "resolved"]
              ELSE promises' = [promises EXCEPT ![p].stage = st + 1]
           /\ IF PublishesWorker(st)
              THEN wSlot' = Some(p)
              ELSE UNCHANGED wSlot
           /\ workers' = IF InitStages[st] = "createWorker"
                         THEN [workers EXCEPT ![p] = "created"]
                         ELSE IF st = Len(InitStages) /\ workers[p] = "created"
                         THEN [workers EXCEPT ![p] = "ready"]
                         ELSE workers
    /\ UNCHANGED << parseVars, sideVars, procVars, chart, runVars, reqRef, page, pSlot, term, hist >>

\* one await of the init closure rejects or times out: createWorker falls
\* back to the CDN paths once, anything else rejects the promise. The first
\* reaction to the rejection is the catch of the call that created the
\* promise (lines 1342-1346), which resets both slots before any awaiting
\* run continues
InitFail(p) ==
    /\ promises[p].state = "pending"
    /\ hist.faults < MaxFaults
    /\ IF InitStages[promises[p].stage] = "createWorker" /\ ~promises[p].cdn
       THEN /\ promises' = [promises EXCEPT ![p].cdn = TRUE]
            /\ UNCHANGED << wSlot, pSlot >>
       ELSE /\ promises' = [promises EXCEPT ![p].state = "rejected"]
            /\ wSlot' = None
            /\ pSlot' = None
    /\ hist' = [hist EXCEPT !.faults = @ + 1]
    /\ UNCHANGED << parseVars, sideVars, procVars, chart, runVars, reqRef, page, workers, term >>

(***************************************************************************)
(* terminateTesseractWorker (lines 1349-1358), run by the unmount cleanup  *)
(***************************************************************************)
TerminateStart ==
    /\ term = "idle"
    /\ IF wSlot # None
       THEN /\ workers' = [workers EXCEPT ![wSlot[1]] = "terminated"]
            /\ term' = "terminate"
            /\ UNCHANGED << wSlot, pSlot >>
       ELSE /\ wSlot' = None
            /\ pSlot' = None
            /\ term' = "done"
            /\ UNCHANGED workers
    /\ UNCHANGED << parseVars, sideVars, procVars, chart, runVars, reqRef, page, promises, hist >>

TerminateFinally ==
    /\ term = "terminate"
    /\ wSlot' = None
    /\ pSlot' = None
    /\ term' = "done"
    /\ UNCHANGED << parseVars, sideVars, procVars, chart, runVars, reqRef, page, promises,
                    workers, hist >>

(***************************************************************************)
(* handleFile (lines 1611-1669) and reprocesar (lines 1690-1746), cut at   *)
(* their awaits; runLumaBarLabelOcr (lines 1387-1527) runs inside them.    *)
(***************************************************************************)
\* a run may start once the runs before it have started, while mounted
MayStart(r) ==
    /\ pc[r] = "idle"
    /\ \A q \in Runs : q < r => pc[q] # "idle"
    /\ term = "idle"

InFlight == {q \in Runs : pc[q] \notin {"idle", "done"}}

\* handleFile up to "await loadImageFromFile(file)", on a file whose image
\* shows one of the given charts
UploadOf(r, charts) ==
    /\ MayStart(r)
    /\ \E c \in charts : chart' = [chart EXCEPT ![r] = c]
    /\ kind' = [kind EXCEPT ![r] = "handleFile"]
    /\ file' = [file EXCEPT ![r] = r]
    /\ page' = [ResetOutputs(page) EXCEPT !.rawFileName = r]
    /\ pc' = [pc EXCEPT ![r] = "decode"]
    /\ hist' = [hist EXCEPT !.superseded = @ \cup InFlight]
    /\ UNCHANGED << parseVars, sideVars, procVars, myReq, segs, idx, candidates, handle,
                    waitsOn, owner, result, outcome, fault, reqRef,
                    workerVars, term >>

\* reprocesar up to the await of the image reload
StartReprocesar(r) ==
    /\ MayStart(r)
    /\ page.rawPreview # NoFile
    /\ kind' = [kind EXCEPT ![r] = "reprocesar"]
    /\ file' = [file EXCEPT ![r] = page.rawPreview]
    /\ reqRef' = reqRef + 1
    /\ myReq' = [myReq EXCEPT ![r] = reqRef + 1]
    /\ page' = [page EXCEPT !.ocrError = "", !.ocrStatus = "reprocessing"]
    /\ pc' = [pc EXCEPT ![r] = "decode"]
    /\ UNCHANGED << parseVars, sideVars, procVars, chart, segs, idx, candidates, handle, waitsOn,
                    owner, result, outcome, fault, workerVars, term, hist >>

\* the image of an upload decodes: lines 1626-1634, then runLumaBarLabelOcr
\* up to "await ensureTesseractWorker"
UploadDecoded(r) ==
    /\ pc[r] = "decode"
    /\ kind[r] = "handleFile"
    /\ reqRef' = reqRef + 1
    /\ myReq' = [myReq EXCEPT ![r] = reqRef + 1]
    /\ page' = [page EXCEPT !.rawPreview = file[r], !.ocrStatus = "loading"]
    /\ segs' = [segs EXCEPT ![r] = SubmittedSegs(findBarSegments(chart[file[r]]))]
    /\ EnsureCall(r)
    /\ pc' = [pc EXCEPT ![r] = "ensure"]
    /\ UNCHANGED << parseVars, sideVars, procVars, chart, kind, file, idx, candidates, result,
                    outcome, fault, wSlot, workers, term, hist >>

\* the image of an upload fails to decode: the await at line 1625 is outside
\* the try, so handleFile rejects and nothing is written
UploadDecodeFail(r) ==
    /\ pc[r] = "decode"
    /\ kind[r] = "handleFile"
    /\ hist.faults < MaxFaults
    /\ fault' = [fault EXCEPT ![r] = "decode"]
    /\ pc' = [pc EXCEPT ![r] = "done"]
    /\ outcome' = [outcome EXCEPT ![r] = "rejected"]
    /\ hist' = [hist EXCEPT !.faults = @ + 1]
    /\ UNCHANGED << parseVars, sideVars, procVars, chart, kind, file, myReq, segs, idx, candidates,
                    handle, waitsOn, owner, result, reqRef, page, workerVars,
                    term >>

\* the image of reprocesar reloads: runLumaBarLabelOcr up to the ensure await
\* (line 1399 throws when the run was superseded meanwhile)
ReprocesarDecoded(r) ==
    /\ pc[r] = "decode"
    /\ kind[r] = "reprocesar"
    /\ IF isCanceled(r)
       THEN /\ pc' = [pc EXCEPT ![r] = "done"]
            /\ outcome' = [outcome EXCEPT ![r] = "canceled"]
            /\ UNCHANGED << page, segs, handle, waitsOn, owner, pSlot, promises >>
       ELSE /\ page' = [page EXCEPT !.ocrStatus = "loading"]
            /\ segs' = [segs EXCEPT ![r] =
                            SubmittedSegs(findBarSegments(chart[file[r]]))]
            /\ EnsureCall(r)
            /\ pc' = [pc EXCEPT ![r] = "ensure"]
            /\ UNCHANGED outcome
    /\ UNCHANGED << parseVars, sideVars, procVars, chart, kind, file, myReq, idx, candidates,
                    result, fault, reqRef, wSlot, workers, term, hist >>

\* the image reload of reprocesar fails: inside the try (line 1705)
ReprocesarDecodeFail(r) ==
    /\ pc[r] = "decode"
    /\ kind[r] = "reprocesar"
    /\ hist.faults < MaxFaults
    /\ fault' = [fault EXCEPT ![r] = "decode"]
    /\ pc' = [pc EXCEPT ![r] = "done"]
    /\ outcome' = [outcome EXCEPT ![r] = IF isCanceled(r) THEN "canceled" ELSE "error"]
    /\ page' = CatchPage(page, isCanceled(r), "decode")
    /\ hist' = [hist EXCEPT !.faults = @ + 1]
    /\ UNCHANGED << parseVars, sideVars, procVars, chart, kind, file, myReq, segs, idx, candidates,
                    handle, waitsOn, owner, result, reqRef, workerVars, term >>

\* the ensure await resolves: lines 1434-1474 up to the first setParameters
\* await of ocrSingleNumber, or to the end of the run when there is no bar
EnsureResolved(r) ==
    /\ pc[r] = "ensure"
    /\ IF waitsOn[r] = 0 THEN TRUE ELSE promises[waitsOn[r]].state = "resolved"
    /\ handle' = [handle EXCEPT ![r] = IF waitsOn[r] = 0 THEN @ ELSE waitsOn[r]]
    /\ LET res == BuildResult(<< >>)
       IN  IF isCanceled(r)
           THEN /\ pc' = [pc EXCEPT ![r] = "done"]
                /\ outcome' = [outcome EXCEPT ![r] = "canceled"]
                /\ UNCHANGED << page, idx, result >>
           ELSE IF segs[r] = << >>
           THEN /\ pc' = [pc EXCEPT ![r] = "done"]
                /\ outcome' = [outcome EXCEPT ![r] = "insufficient"]
                /\ result' = [result EXCEPT ![r] = Some(res)]
                /\ page' = CommitPage([page EXCEPT !.ocrStatus = "reading"],
                                      file[r], res)
                /\ UNCHANGED idx
           ELSE /\ pc' = [pc EXCEPT ![r] = "setParameters"]
                /\ idx' = [idx EXCEPT ![r] = 1]
                /\ page' = [page EXCEPT !.ocrStatus = "reading"]
                /\ UNCHANGED << outcome, result >>
    /\ UNCHANGED << parseVars, sideVars, procVars, chart, kind, file, myReq, segs, candidates,
                    waitsOn, owner, fault, reqRef, workerVars, term, hist >>

\* the ensure await rejects (the slots were reset when the promise was
\* rejected); then the catch of handleFile / reprocesar
EnsureRejected(r) ==
    /\ pc[r] = "ensure"
    /\ waitsOn[r] # 0
    /\ promises[waitsOn[r]].state = "rejected"
    /\ fault' = [fault EXCEPT ![r] = "init"]
    /\ pc' = [pc EXCEPT ![r] = "done"]
    /\ outcome' = [outcome EXCEPT ![r] = IF isCanceled(r) THEN "canceled" ELSE "error"]
    /\ page' = CatchPage(page, isCanceled(r), "init")
    /\ UNCHANGED << parseVars, sideVars, procVars, chart, kind, file, myReq, segs, idx, candidates,
                    handle, waitsOn, owner, result, reqRef, workerVars, term,
                    hist >>

\* ocrSingleNumber: "await worker.setParameters(...)" resolves and
\* worker.recognize(roi) is issued (lines 1361-1368)
SetParametersDone(r) ==
    /\ pc[r] = "setParameters"
    /\ ~hist.silent
    /\ pc' = [pc EXCEPT ![r] = "recognize"]
    /\ hist' = [hist EXCEPT !.calls[r] = Append(@, segs[r][idx[r]].x0)]
    /\ UNCHANGED << parseVars, sideVars, procVars, chart, kind, file, myReq, segs, idx, candidates,
                    handle, waitsOn, owner, result, outcome, fault, reqRef,
                    page, workerVars, term >>

\* an exception out of ocrSingleNumber (setParameters rejects; recognize
\* rejects or times out): nothing catches it before handleFile / reprocesar
RoiCatch(r, what) ==
    /\ pc[r] = what
    /\ fault' = [fault EXCEPT ![r] = what]
    /\ pc' = [pc EXCEPT ![r] = "done"]
    /\ outcome' = [outcome EXCEPT ![r] = IF isCanceled(r) THEN "canceled" ELSE "error"]
    /\ page' = CatchPage(page, isCanceled(r), what)
    /\ UNCHANGED << parseVars, sideVars, procVars, chart, kind, file, myReq, segs, idx, candidates,
                    handle, waitsOn, owner, result, reqRef, workerVars, term >>

RoiFail(r, what) ==
    /\ ~hist.silent
    /\ hist.faults < MaxFaults
    /\ RoiCatch(r, what)
    /\ hist' = [hist EXCEPT !.faults = @ + 1]

SetParametersFail(r) == RoiFail(r, "setParameters")
RecognizeFail(r) == RoiFail(r, "recognize")

\* the engine stops answering while a run is in ocrSingleNumber: from now
\* on no call to the worker resolves or rejects
EngineStops ==
    /\ ~hist.silent
    /\ \E r \in Runs : pc[r] \in {"setParameters", "recognize"}
    /\ hist' = [hist EXCEPT !.silent = TRUE]
    /\ UNCHANGED << parseVars, sideVars, procVars, chart, runVars, reqRef, page,
                    workerVars, term >>

\* withTimeout(worker.recognize(roi), 60000, "recognize(roi)") (line 1368;
\* withTimeout, lines 1264-1270): the timer rejects the race when the
\* engine has not answered.  The setParameters await of line 1362 is not
\* wrapped, so no timer runs while pc[r] = "setParameters"
RecognizeTimeout(r) ==
    /\ hist.silent
    /\ RoiCatch(r, "recognize")
    /\ UNCHANGED hist

\* for (let i = 0; i < segs.length; i++): after the turn of the i-th of n
\* segments, whose recognition returned out, another turn follows
LoopContinuesMutStopOnNull(i, n, out) == i < n /\ out.n # None
LoopContinuesMutFirstRequest(i, n, out) == i < n /\ reqRef = 1
LoopContinues(i, n, out) == i < n

\* worker.recognize(roi) answers: lines 1369-1373 and 1476-1481, then either
\* the next turn of the loop up to its setParameters await, or lines
\* 1484-1526 and the commit of the caller
RecognizeDone(r) ==
    /\ pc[r] = "recognize"
    /\ ~hist.silent
    /\ \E seg \in {segs[r][idx[r]]} :
       \E out \in {ocrSingleNumber(AnswerAt(chart[file[r]], seg))} :
       \E cands \in {PushCandidate(candidates[r], seg, out)} :
       \E res \in {BuildResult(cands)} :
           /\ candidates' = [candidates EXCEPT ![r] = cands]
           /\ idx' = [idx EXCEPT ![r] = @ + 1]
           /\ IF LoopContinues(idx[r], Len(segs[r]), out)
              THEN /\ pc' = [pc EXCEPT ![r] =
                                IF isCanceled(r) THEN "done" ELSE "setParameters"]
                   /\ outcome' = [outcome EXCEPT ![r] =
                                IF isCanceled(r) THEN "canceled" ELSE @]
                   /\ UNCHANGED << result, page >>
              ELSE /\ pc' = [pc EXCEPT ![r] = "done"]
                   /\ result' = [result EXCEPT ![r] = Some(res)]
                   /\ outcome' = [outcome EXCEPT ![r] =
                                IF isCanceled(r) THEN "canceled"
                                ELSE IF res.monthsUsed < MinMonths
                                THEN "insufficient" ELSE "ok"]
                   /\ page' = IF isCanceled(r) THEN page
                              ELSE CommitPage(page, file[r], res)
    /\ UNCHANGED << parseVars, sideVars, procVars, chart, kind, file, myReq, segs, handle, waitsOn,
                    owner, fault, reqRef, workerVars, term, hist >>

\* clearAll (lines 1671-1688), the r-th user action; manualMonthly aside
ClearAll(r) ==
    /\ MayStart(r)
    /\ kind' = [kind EXCEPT ![r] = "clearAll"]
    /\ pc' = [pc EXCEPT ![r] = "done"]
    /\ outcome' = [outcome EXCEPT ![r] = "cleared"]
    /\ reqRef' = reqRef + 1
    /\ page' = PageInit
    /\ UNCHANGED << parseVars, sideVars, procVars, chart, file, myReq, segs, idx, candidates,
                    handle, waitsOn, owner, result, fault, workerVars, term,
                    hist >>

\* onChange of the monthly-kWh field (lines 1819-1824)
SetManualMonthly(v) ==
    /\ term = "idle"
    /\ page.manualMonthly # v
    /\ page' = [page EXCEPT !.manualMonthly = v]
    /\ UNCHANGED << parseVars, sideVars, procVars, chart, runVars, reqRef, workerVars, term, hist >>

(***************************************************************************)
(* The processFile page (part_002, lines 942-1860): processFile (lines     *)
(* 1412-1489), cut at its two awaits, and clearAll (lines 1496-1502).      *)
(* Its buttons are disabled while busy (lines 1559, 1568, 1646).           *)
(***************************************************************************)
\* const barCount = 13: the columns ocrLumaBarLabels looks at
BarCount == 13

\* what recognition keeps of one column: a value of [20, 3000], a confidence
PrimaryRead == [value |-> 825, conf |-> 90]
OddRead == [value |-> 301, conf |-> 40]

\* results of ocrLumaBarLabels: k kept columns, at most one of them odd
ReadsOf(k) ==
    {[j \in 1..k |-> PrimaryRead]}
        \cup {[j \in 1..k |-> IF j = o THEN OddRead ELSE PrimaryRead] : o \in 1..k}

\* setOcr({..., status: "working"}) (line 1414)
OcrWorking == [OcrIdle EXCEPT !.status = "working"]
\* the catch (lines 1475-1486)
OcrErrorMutNoSummary == OcrWorking
OcrError == [OcrIdle EXCEPT !.status = "error"]

\* the confidences averaged by line 1460
AveragedConfs(reads) == [j \in 1..Len(reads) |-> reads[j].conf]

\* lines 1436-1473: the summary processFile builds from the reads
ProcessSummary(reads) ==
    LET detectedAll == [j \in 1..Len(reads) |-> reads[j].value]
        used        == IF Len(detectedAll) > 12 THEN SliceLast(detectedAll, 12)
                       ELSE detectedAll
        monthsUsed  == Len(used)
        sum         == SumSeq(used)
        annual      == IF monthsUsed >= 12 THEN Frac(sum, 1)
                       ELSE Frac(12 * sum, monthsUsed)
        confs       == AveragedConfs(reads)
        conf        == IF Len(confs) > 0 THEN Frac(SumSeq(confs), Len(confs))
                       ELSE Frac(0, 1)
    IN  IF monthsUsed < 4
        THEN [OcrIdle EXCEPT !.detectedAll = detectedAll,
                             !.used12MostRecent = used,
                             !.monthsUsed = monthsUsed,
                             !.status = "insufficient"]
        ELSE [detectedAll |-> detectedAll, used12MostRecent |-> used,
              monthsUsed |-> Min(12, monthsUsed), annualKwh |-> annual,
              avgMonthlyKwh |-> Frac(annual.num, 12 * annual.den),
              confidencePct |-> conf, status |-> "ok"]

\* onPickFile -> processFile up to "await fileToBitmap(file)"
ProcessStart ==
    /\ ~busy
    /\ proc.runs < MaxRuns
    /\ \E k \in 0..BarCount : \E rd \in ReadsOf(k) :
          proc' = [pc |-> "bitmap", reads |-> rd, runs |-> proc.runs + 1]
    /\ busy' = TRUE
    /\ ocr' = OcrWorking
    /\ UNCHANGED << parseVars, sideVars, chart, runVars, reqRef, page, workerVars, term,
                    hist >>

\* the bitmap decodes: lines 1418-1431 up to "await ocrLumaBarLabels(plot)"
ProcessBitmapDone ==
    /\ proc.pc = "bitmap"
    /\ proc' = [proc EXCEPT !.pc = "labels"]
    /\ UNCHANGED << parseVars, sideVars, chart, runVars, reqRef, page, workerVars, term,
                    hist, busy, ocr >>

\* either await rejects: the catch, then the finally
ProcessFail ==
    /\ proc.pc \in {"bitmap", "labels"}
    /\ hist.faults < MaxFaults
    /\ ocr' = OcrError
    /\ busy' = FALSE
    /\ proc' = [proc EXCEPT !.pc = "done"]
    /\ hist' = [hist EXCEPT !.faults = @ + 1]
    /\ UNCHANGED << parseVars, sideVars, chart, runVars, reqRef, page, workerVars, term >>

\* ocrLumaBarLabels returns: lines 1432-1473, then the finally
ProcessLabelsDone ==
    /\ proc.pc = "labels"
    /\ ocr' = ProcessSummary(proc.reads)
    /\ busy' = FALSE
    /\ proc' = [proc EXCEPT !.pc = "done"]
    /\ UNCHANGED << parseVars, sideVars, chart, runVars, reqRef, page, workerVars, term,
                    hist >>

\* clearAll of the processFile page
ProcessClearAll ==
    /\ ~busy
    /\ ocr # OcrIdle
    /\ ocr' = OcrIdle
    /\ UNCHANGED << parseVars, sideVars, chart, runVars, reqRef, page, workerVars, term,
                    hist, busy, proc >>

NextProcess ==
    \/ ProcessStart
    \/ ProcessBitmapDone
    \/ ProcessFail
    \/ ProcessLabelsDone
    \/ ProcessClearAll

(***************************************************************************)
(* part_003: dedupeByX (lines 392-402) and the part of                     *)
(* extractMonthlyKwhFromLumaPage that follows it (lines 467-556).  A token *)
(* is what mergeAdjacentDigitTokens returns: a box, a confidence and the   *)
(* value of its text.                                                      *)
(***************************************************************************)
\* most tokens of one extraction
MaxTokens == 3

\* const key = String(Math.round(xc / 18))
BucketSize == 18
OCR_MIN_KWH == 20
OCR_MAX_KWH == 3000
MIN_MONTHS_FOR_OCR == 4
\* enhanced.width of the label crop
CropW == 400

\* twice (t.bbox.x0 + t.bbox.x1) / 2, to stay in the integers
TokenXC2(t) == t.x0 + t.x1

\* Math.round(xc / 18) = floor(xc / 18 + 1/2)
BucketKey(t) == (TokenXC2(t) + BucketSize) \div (2 * BucketSize)

\* the for loop of dedupeByX: a bucket keeps its first token until one of
\* strictly higher confidence comes
RECURSIVE FillBuckets(_, _)
FillBuckets(tokens, buckets) ==
    IF tokens = << >> THEN buckets
    ELSE LET t == Head(tokens)
             k == BucketKey(t)
             replace == IF k \in DOMAIN buckets THEN t.conf > buckets[k].conf
                        ELSE TRUE
         IN  FillBuckets(Tail(tokens),
                         IF replace THEN (k :> t) @@ buckets ELSE buckets)

\* Object.values(buckets): integer keys come in ascending order
RECURSIVE BucketValues(_)
BucketValues(buckets) ==
    IF DOMAIN buckets = {} THEN << >>
    ELSE LET k == CHOOSE m \in DOMAIN buckets : \A o \in DOMAIN buckets : m <= o
         IN  << buckets[k] >>
               \o BucketValues([o \in DOMAIN buckets \ {k} |-> buckets[o]])

SortByXCenter(s) == SortByKey(s, [j \in 1..Len(s) |-> TokenXC2(s[j])])

dedupeByX(tokens) == SortByXCenter(BucketValues(FillBuckets(tokens, << >>)))

\* lines 474-491: the value and far-left filters (the tokens of the model
\* lie inside the vertical band of the two y0 tests)
IsCandidate(t) ==
    /\ t.value >= OCR_MIN_KWH
    /\ t.value <= OCR_MAX_KWH
    /\ 100 * t.x0 >= 6 * CropW

\* lines 501-510: "Remove obvious duplicates"
RECURSIVE UniqueOrdered(_, _)
UniqueOrdered(values, acc) ==
    IF values = << >> THEN acc
    ELSE LET v == Head(values)
         IN  UniqueOrdered(Tail(values),
                 IF acc = << >> THEN << v >>
                 ELSE LET last == acc[Len(acc)]
                          diff == IF last >= v THEN last - v ELSE v - last
                      IN  IF diff <= 1 THEN acc ELSE Append(acc, v))

\* extractMonthlyKwhFromLumaPage from the merged tokens on (lines 467-556)
ExtractFrom(tokens) ==
    LET deduped       == dedupeByX(tokens)
        cands         == SelectSeq(deduped, IsCandidate)
        byX           == SortByXCenter(cands)
        valuesOrdered == [j \in 1..Len(byX) |-> byX[j].value]
        unique        == UniqueOrdered(valuesOrdered, << >>)
        forCalc       == IF Len(unique) > 12 THEN SliceLast(unique, 12) ELSE unique
    IN  [tokens |-> tokens, done |-> TRUE, deduped |-> deduped,
         valuesDetected |-> unique, valuesUsed |-> forCalc,
         ok |-> Len(forCalc) >= MIN_MONTHS_FOR_OCR]

\* the boxes and readings a token of the model may have: boxes 16 px wide
\* whose centers are 8, 2 and 50 px apart, one box in the far-left strip
TokenX0s == {10, 100, 108, 110, 160}
TokenWidth == 16
TokenConfs == {60, 90}
TokenValues == {300, 301, 500}

ModelTokens ==
    { [x0 |-> x, x1 |-> x + TokenWidth, conf |-> c, value |-> v] :
        x \in TokenX0s, c \in TokenConfs, v \in TokenValues }

TokenLists == UNION { [1..n -> ModelTokens] : n \in 0..MaxTokens }

Extract ==
    /\ ~lum.done
    /\ lum' = ExtractFrom(lum.tokens)
    /\ UNCHANGED << parseVars, procVars, chart, runVars, reqRef, page,
                    workerVars, term, hist, zone, det, wb, ob >>

InitLabels ==
    /\ raw = << >>
    /\ parsed = [done |-> FALSE, main |-> None, groups |-> None]
    /\ chart = [f \in Files |-> [bars |-> << >>, labels |-> << >>]]
    /\ InitPage
    /\ \E toks \in TokenLists : lum = [LumIdle EXCEPT !.tokens = toks]
    /\ zone = ZoneIdle
    /\ det = DetIdle
    /\ wb = WbIdle
    /\ ob = ObIdle

NextLabels == Extract

SpecLabels == InitLabels /\ [][NextLabels]_vars

(***************************************************************************)
(* detectGraphZone (page.tsx, lines 1145-1223) on a tight crop no wider    *)
(* than 900 px, so that downscaleCanvas returns it unchanged and the       *)
(* scale factors sx and sy are 1.  The input of the model is what the      *)
(* pixels decide: the size w x h, the segments findBarSegments returns for *)
(* the window that is kept, which of the four windows scored best, and the *)
(* first and last row that pass the ink test (if any).                     *)
(***************************************************************************)
\* clamp(n, a, b) (lines 947-949)
clamp(n, a, b) == Max(a, Min(b, n))

\* [0.15, 0.25, 0.35, 0.45].map((p) => Math.round(h * p))
WindowTops(h) ==
    << MathRound(Frac(15 * h, 100)), MathRound(Frac(25 * h, 100)),
       MathRound(Frac(35 * h, 100)), MathRound(Frac(45 * h, 100)) >>

RECURSIVE MinX0(_, _)
MinX0(sg, m) == IF sg = << >> THEN m ELSE MinX0(Tail(sg), Min(m, Head(sg).x0))
RECURSIVE MaxX1(_, _)
MaxX1(sg, m) == IF sg = << >> THEN m ELSE MaxX1(Tail(sg), Max(m, Head(sg).x1))

detectGraphZone(inp) ==
    LET w     == inp.w
        h     == inp.h
        sg    == inp.segs
        yEnd  == MathRound(Frac(92 * h, 100))
        y0    == IF Len(sg) < 6 THEN MathRound(Frac(35 * h, 100))
                 ELSE WindowTops(h)[inp.best]
        minX1 == IF sg # << >> THEN MinX0(sg, w - 1) ELSE MathRound(Frac(3 * w, 100))
        maxX  == IF sg # << >> THEN MaxX1(sg, 0) ELSE MathRound(Frac(98 * w, 100))
        scanMinY == IF inp.ink = None THEN h - 1 ELSE inp.ink[1][1]
        scanMaxY == IF inp.ink = None THEN 0 ELSE inp.ink[1][2]
        minY1 == IF scanMinY >= scanMaxY THEN y0 ELSE scanMinY
        maxY1 == IF scanMinY >= scanMaxY THEN yEnd ELSE scanMaxY
        padY  == MathRound(Frac(2 * h, 100))
        minY  == clamp(minY1 - padY, 0, h - 1)
        maxY  == clamp(maxY1 + padY, 0, h - 1)
        discardLeft == MathRound(Frac(75 * w, 1000))
        minX  == clamp(minX1 + discardLeft, 0, w - 1)
    IN  [x |-> minX, y |-> minY, w |-> maxX - minX, h |-> maxY - minY]

\* n segments as findBarSegments returns them: 8 px wide, in order, more
\* than 6 px apart
SegsOf(w, n) ==
    [j \in 1..n |-> [x0 |-> (w * j) \div (n + 1), x1 |-> (w * j) \div (n + 1) + 7,
                     strength |-> 10]]

ZoneWidths == {200, 900}
ZoneHeights == {100, 400}
ZoneSegCounts == {0, 1, 2, 13}

ZoneInputs ==
    { [w |-> w, h |-> h, segs |-> SegsOf(w, n), best |-> b, ink |-> i] :
        w \in ZoneWidths, h \in ZoneHeights, n \in ZoneSegCounts, b \in 1..4,
        i \in {None, Some(<< 10, 10 >>), Some(<< 20, 80 >>), Some(<< 0, 99 >>)} }

DetectZone ==
    /\ ~zone.done
    /\ zone' = [zone EXCEPT !.done = TRUE, !.rect = detectGraphZone(zone.inp)]
    /\ UNCHANGED << parseVars, procVars, chart, runVars, reqRef, page,
                    workerVars, term, hist, lum, det, wb, ob >>

InitZone ==
    /\ raw = << >>
    /\ parsed = [done |-> FALSE, main |-> None, groups |-> None]
    /\ chart = [f \in Files |-> [bars |-> << >>, labels |-> << >>]]
    /\ InitPage
    /\ lum = LumIdle
    /\ det = DetIdle
    /\ wb = WbIdle
    /\ ob = ObIdle
    /\ \E i \in ZoneInputs : zone = [ZoneIdle EXCEPT !.inp = i]

NextZone == DetectZone

SpecZone == InitZone /\ [][NextZone]_vars

(***************************************************************************)
(* detectBars (page.tsx, lines 143-243) on a chart DetW px wide, from the  *)
(* thresholding on: the input is which columns of xStart .. xEnd - 1 are   *)
(* active (smooth[x] >= th), given as the runs of active columns with the  *)
(* inactive gap before each.  The smoothed profile moves by at most        *)
(* 1/13 of a column count per pixel, so it can dip under the threshold for *)
(* a single column: every gap of one column or more occurs.                *)
(***************************************************************************)
\* most runs of active columns of one chart
MaxActiveRuns == 3

\* chart.width
DetW == 100
\* const xStart = Math.round(W * 0.12); const xEnd = Math.round(W * 0.995)
DetXStart == MathRound(Frac(12 * DetW, 100))
DetXEnd == MathRound(Frac(995 * DetW, 1000))
\* w >= 6 && w <= Math.round(W * 0.12)
MinBarWidth == 6
MaxBarWidth == MathRound(Frac(12 * DetW, 100))
\* if (s.x0 - last.x1 <= 4)
MergeGap == 4

\* the columns that are active, from the runs: run j starts gap columns
\* after the end of run j - 1 and is width columns wide; with toEnd the
\* last run goes on to the last column
RECURSIVE RunStart(_, _)
RunStart(runs, j) ==
    IF j = 1 THEN DetXStart + runs[1].gap
    ELSE RunStart(runs, j - 1) + runs[j - 1].width + runs[j].gap

ActiveColumns(runs, toEnd) ==
    { x \in DetXStart..(DetXEnd - 1) :
        \E j \in 1..Len(runs) :
            /\ x >= RunStart(runs, j)
            /\ \/ x < RunStart(runs, j) + runs[j].width
               \/ (toEnd /\ j = Len(runs)) }

KeepsWidth(w) == w >= MinBarWidth /\ w <= MaxBarWidth

BarSegment(x0, x1) == [x0 |-> x0, x1 |-> x1, cx2 |-> x0 + x1]

\* the segmentation loop and its tail (lines 198-220): a segment is opened
\* at an active column whose left neighbour is not active (or is outside
\* the zone), closed at the last active column of the run, and kept when
\* its width passes the filter; the segments come in ascending order
RunEnd(active, seg0) ==
    CHOOSE seg1 \in active :
        /\ seg1 >= seg0
        /\ \A x \in seg0..seg1 : x \in active
        /\ (seg1 + 1) \notin active

RECURSIVE SegmentsFrom(_, _)
SegmentsFrom(active, starts) ==
    IF starts = {} THEN << >>
    ELSE LET seg0 == CHOOSE m \in starts : \A o \in starts : m <= o
             seg1 == RunEnd(active, seg0)
         IN  (IF KeepsWidth(seg1 - seg0 + 1) THEN << BarSegment(seg0, seg1) >>
              ELSE << >>) \o SegmentsFrom(active, starts \ {seg0})

ScanColumns(active) ==
    SegmentsFrom(active, { x \in active : (x - 1) \notin active })

\* the merge loop (lines 222-240)
RECURSIVE MergeSegments(_, _)
MergeSegments(segments, merged) ==
    IF segments = << >> THEN merged
    ELSE LET sg == Head(segments)
         IN  MergeSegments(Tail(segments),
                 IF merged = << >> THEN << sg >>
                 ELSE LET last == merged[Len(merged)]
                      IN  IF sg.x0 - last.x1 <= MergeGap
                          THEN [merged EXCEPT ![Len(merged)] =
                                   BarSegment(last.x0, sg.x1)]
                          ELSE Append(merged, sg))

detectBars(runs, toEnd) ==
    MergeSegments(ScanColumns(ActiveColumns(runs, toEnd)), << >>)

RunGaps == {1, 3, 5, 9}
RunWidths == {4, 6, 8, 10, 14}
ActiveRuns == [gap : RunGaps, width : RunWidths]
RunLists == UNION { [1..n -> ActiveRuns] : n \in 0..MaxActiveRuns }

DetectBars ==
    /\ ~det.done
    /\ det' = [det EXCEPT !.done = TRUE,
                          !.segments = detectBars(det.runs, det.toEnd)]
    /\ UNCHANGED << parseVars, procVars, chart, runVars, reqRef, page,
                    workerVars, term, hist, lum, zone, wb, ob >>

InitBars ==
    /\ raw = << >>
    /\ parsed = [done |-> FALSE, main |-> None, groups |-> None]
    /\ chart = [f \in Files |-> [bars |-> << >>, labels |-> << >>]]
    /\ InitPage
    /\ lum = LumIdle
    /\ zone = ZoneIdle
    /\ wb = WbIdle
    /\ ob = ObIdle
    /\ \E rl \in RunLists : \E e \in BOOLEAN :
          det = [DetIdle EXCEPT !.runs = rl, !.toEnd = e]

NextBars == DetectBars

SpecBars == InitBars /\ [][NextBars]_vars

(***************************************************************************)
(* The page guarded by workerBusyRef (part_002): onPickFile (lines         *)
(* 565-580), runOcrFromFile (477-563), resetOcrOutputs (462-468) and       *)
(* clearAll (590-598), cut at the awaits of runOcrFromFile.  The buttons   *)
(* that open the file pickers and the clear button are disabled while      *)
(* processing (lines 641, 649, 735).                                       *)
(***************************************************************************)
\* most files picked in one behaviour
MaxPicks == 4

\* what recognition makes of a file: 4 labels or more, fewer, or a failure
WbReads == {"ok", "insufficient", "error"}

\* resetOcrOutputs: the message, annualKwh and monthsUsed; not avgMonthlyKwh
resetOcrOutputs(w) == [w EXCEPT !.ocrMsg = 0, !.annualKwh = 0, !.monthsUsed = 0]

\* the finally of runOcrFromFile
WbFinally(w) ==
    [w EXCEPT !.processing = FALSE, !.workerBusy = FALSE, !.pc = "idle",
              !.inFlight = 0]

\* onPickFile, then runOcrFromFile up to "await fileToCanvas(file)" or to
\* the return of its guard
WbPickFile ==
    /\ ~wb.processing
    /\ wb.picks < MaxPicks
    /\ \E rd \in WbReads :
          LET f      == wb.picks + 1
              picked == [wb EXCEPT !.fileName = f, !.processing = FALSE,
                                   !.ocrMsg = 0, !.pagePreviewUrl = f,
                                   !.picks = f]
          IN  wb' = IF picked.workerBusy THEN picked
                    ELSE [resetOcrOutputs(picked) EXCEPT
                             !.workerBusy = TRUE, !.processing = TRUE,
                             !.pc = "fileToCanvas", !.inFlight = f,
                             !.reads = rd]
    /\ UNCHANGED << parseVars, procVars, chart, runVars, reqRef, page,
                    workerVars, term, hist, lum, zone, det, ob >>

\* fileToCanvas resolves: lines 487-499 up to "await ensureWorker()"
WbCanvasDone ==
    /\ wb.pc = "fileToCanvas"
    /\ wb' = [wb EXCEPT !.pc = "ensureWorker"]
    /\ UNCHANGED << parseVars, procVars, chart, runVars, reqRef, page,
                    workerVars, term, hist, lum, zone, det, ob >>

\* ensureWorker resolves: the ROI loop starts (lines 501-507)
WbWorkerDone ==
    /\ wb.pc = "ensureWorker"
    /\ wb' = [wb EXCEPT !.pc = "recognize"]
    /\ UNCHANGED << parseVars, procVars, chart, runVars, reqRef, page,
                    workerVars, term, hist, lum, zone, det, ob >>

\* the ROI loop ends: lines 514-553, then the finally
WbRecognized ==
    /\ wb.pc = "recognize"
    /\ wb.reads # "error"
    /\ LET f == wb.inFlight
       IN  wb' = WbFinally(
                   IF wb.reads = "insufficient"
                   THEN [wb EXCEPT !.ocrMsg = f, !.monthsUsed = f, !.annualKwh = 0]
                   ELSE [wb EXCEPT !.avgMonthlyKwh = f, !.annualKwh = f,
                                   !.monthsUsed = f, !.ocrMsg = f])
    /\ UNCHANGED << parseVars, procVars, chart, runVars, reqRef, page,
                    workerVars, term, hist, lum, zone, det, ob >>

\* an await of the try block rejects: the catch (lines 554-557), then the
\* finally
WbFail ==
    /\ wb.pc \in {"fileToCanvas", "ensureWorker", "recognize"}
    /\ wb.reads = "error"
    /\ wb' = WbFinally([wb EXCEPT !.ocrMsg = wb.inFlight])
    /\ UNCHANGED << parseVars, procVars, chart, runVars, reqRef, page,
                    workerVars, term, hist, lum, zone, det, ob >>

\* clearAll (lines 590-598)
WbClearAll ==
    /\ ~wb.processing
    /\ wb.fileName # 0
    /\ wb' = resetOcrOutputs([wb EXCEPT !.fileName = 0, !.pagePreviewUrl = 0])
    /\ UNCHANGED << parseVars, procVars, chart, runVars, reqRef, page,
                    workerVars, term, hist, lum, zone, det, ob >>

NextGuarded ==
    \/ WbPickFile
    \/ WbCanvasDone
    \/ WbWorkerDone
    \/ WbRecognized
    \/ WbFail
    \/ WbClearAll

(***************************************************************************)
(* The per-bar OCR page (page.tsx): bestNumberFromTessData (lines          *)
(* 353-385), ocrBars (lines 390-435) and handleFile (lines 512-588), cut   *)
(* at their awaits.                                                        *)
(***************************************************************************)
MinRois == 3
MaxRois == 5

\* if (val < 20 || val > 3000) continue;
BarValueKept(val) == val >= 20 /\ val <= 3000

\* the candidates taken from data.words (lines 357-368)
WordCandidates(words) ==
    LET cleaned(w) == parseDigitsOnly(w.text)
        kept(w) == /\ cleaned(w) # << >>
                   /\ Len(cleaned(w)) >= 2 /\ Len(cleaned(w)) <= 4
                   /\ BarValueKept(NumberOf(cleaned(w)))
        ws == SelectSeq(words, kept)
    IN  [j \in 1..Len(ws) |->
            [value |-> NumberOf(cleaned(ws[j])), conf |-> ws[j].confidence]]

\* the fallback on data.text (lines 371-380)
TextCandidates(data) ==
    LET kept(m) == BarValueKept(NumberOf(m))
        ms == SelectSeq(MatchGroups(data.text, 1), kept)
    IN  [j \in 1..Len(ms) |->
            [value |-> NumberOf(ms[j]), conf |-> data.confidence]]

\* candidates.sort((a, b) => b.conf - a.conf)
SortByConfDesc(c) == SortByKey(c, [j \in 1..Len(c) |-> 0 - c[j].conf])

bestNumberFromTessData(data) ==
    LET fromWords  == WordCandidates(data.words)
        cands == IF fromWords # << >> THEN fromWords
                 ELSE TextCandidates(data)
    IN  IF cands = << >> THEN [value |-> None, conf |-> 0]
        ELSE LET best == SortByConfDesc(cands)[1]
             IN  [value |-> Some(best.value), conf |-> best.conf]

\* what the engine makes of one label ROI: a word of digits (the whitelist
\* is 0-9), two words, or a rejected recognize call
WordTexts ==
    { << "4", "5", "0" >>, << "3", "5", "0", "0" >>, << "1", "5" >>,
      << "1", "2", "3", "4", "5" >> }
OneWord(t, c) ==
    [rejects |-> FALSE, words |-> << [text |-> t, confidence |-> c] >>,
     text |-> t, confidence |-> c]
TwoWords ==
    [rejects |-> FALSE,
     words |-> << [text |-> << "4", "5", "0" >>, confidence |-> 60],
                  [text |-> << "9", "0", "0" >>, confidence |-> 90] >>,
     text |-> << "4", "5", "0", " ", "9", "0", "0" >>, confidence |-> 75]
Rejected ==
    [rejects |-> TRUE, words |-> << >>, text |-> << >>, confidence |-> 0]
RoiReadings == {OneWord(t, 80) : t \in WordTexts} \cup {TwoWords, Rejected}
RoiLists == UNION { [1..n -> RoiReadings] : n \in MinRois..MaxRois }

\* round2(sum / n), in hundredths
round2(sum, n) == MathRound(Frac(sum * 100, n))

\* handleFile from "const bars = await ocrBars(rois)" on (lines 545-582)
\* with the finally: bars sorted by x, the numeric ones, the last 12
ObAfterOcr(o, bars) ==
    LET sorted      == SortByKey(bars, [j \in 1..Len(bars) |-> bars[j].x])
        isNumeric(b) == b.value # None
        numericBars == SelectSeq(sorted, isNumeric)
        detected    == [j \in 1..Len(numericBars) |-> numericBars[j].value[1]]
        used        == SliceLast(numericBars, 12)
        valuesUsed  == [j \in 1..Len(used) |-> used[j].value[1]]
        confs       == [j \in 1..Len(used) |-> used[j].conf]
        sum         == SumSeq(valuesUsed)
        monthsUsed  == Len(valuesUsed)
        shown       == [o EXCEPT !.valuesDetectedAll = detected,
                                 !.ocrBusy = FALSE, !.pc = "done"]
    IN  IF Len(used) < 4
        THEN [shown EXCEPT !.ocrError = "insufficient"]
        ELSE [shown EXCEPT
                !.commercialFlag = \E j \in 1..Len(used) : used[j].value[1] > 3000,
                !.valuesUsed12 = valuesUsed,
                !.ocrMonthsUsed = monthsUsed,
                !.ocrMonthlyAvg = round2(sum, monthsUsed),
                !.ocrAnnual = round2(sum * 12, monthsUsed),
                !.ocrConfidence = round2(SumSeq(confs), monthsUsed)]

\* catch (e) { setOcrError(...) } finally { setOcrBusy(false) }
ObCatch(o) == [o EXCEPT !.ocrError = "error", !.ocrBusy = FALSE, !.pc = "done"]

\* handleFile up to "await loadTesseractModule()" in ocrBars, or to the
\* return for fewer than 4 ROIs; the image steps before it are not modelled
ObHandleFile ==
    /\ ob.pc = "idle"
    /\ \E rs \in RoiLists :
          LET fresh == [ObIdle EXCEPT !.rois = rs]
          IN  ob' = IF Len(rs) < 4
                    THEN [fresh EXCEPT !.ocrError = "bars", !.pc = "done"]
                    ELSE [fresh EXCEPT !.ocrBusy = TRUE, !.pc = "createWorker"]
    /\ UNCHANGED << parseVars, procVars, chart, runVars, reqRef, page,
                    workerVars, term, hist, lum, zone, det, wb >>

\* "await createWorker()" resolves (line 395)
ObCreateWorker ==
    /\ ob.pc = "createWorker"
    /\ ob' = [ob EXCEPT !.worker = "created", !.pc = "init"]
    /\ UNCHANGED << parseVars, procVars, chart, runVars, reqRef, page,
                    workerVars, term, hist, lum, zone, det, wb >>

\* load, loadLanguage, initialize and setParameters resolve (lines 397-408)
ObInitDone ==
    /\ ob.pc = "init"
    /\ ob' = [ob EXCEPT !.pc = "recognize", !.i = 1]
    /\ UNCHANGED << parseVars, procVars, chart, runVars, reqRef, page,
                    workerVars, term, hist, lum, zone, det, wb >>

\* one of them rejects: ocrBars throws into the catch of handleFile
ObInitFail ==
    /\ ob.pc = "init"
    /\ ob' = ObCatch(ob)
    /\ UNCHANGED << parseVars, procVars, chart, runVars, reqRef, page,
                    workerVars, term, hist, lum, zone, det, wb >>

\* "await worker.recognize(r.canvas)" settles for ROI i (lines 411-415);
\* after the last ROI, worker.terminate() is called (line 417)
ObRecognize ==
    /\ ob.pc = "recognize"
    /\ LET r == ob.rois[ob.i]
           best == bestNumberFromTessData(r)
           out == Append(ob.out, [x |-> ob.i, value |-> best.value,
                                  conf |-> best.conf])
       IN  ob' = IF r.rejects THEN ObCatch(ob)
                 ELSE IF ob.i < Len(ob.rois)
                 THEN [ob EXCEPT !.out = out, !.i = ob.i + 1]
                 ELSE [ob EXCEPT !.out = out, !.worker = "terminated",
                                 !.pc = "terminate"]
    /\ UNCHANGED << parseVars, procVars, chart, runVars, reqRef, page,
                    workerVars, term, hist, lum, zone, det, wb >>

\* "await worker.terminate()" resolves, ocrBars returns, handleFile goes on
ObTerminated ==
    /\ ob.pc = "terminate"
    /\ ob' = ObAfterOcr(ob, ob.out)
    /\ UNCHANGED << parseVars, procVars, chart, runVars, reqRef, page,
                    workerVars, term, hist, lum, zone, det, wb >>

NextBarOcr ==
    \/ ObHandleFile
    \/ ObCreateWorker
    \/ ObInitDone
    \/ ObInitFail
    \/ ObRecognize
    \/ ObTerminated

(***************************************************************************)
(* SpecParse: the two parsers on every text of at most MaxRawLen           *)
(* characters.                                                             *)
(***************************************************************************)
ParsePending == [done |-> FALSE, main |-> None, groups |-> None]

Parse ==
    /\ ~parsed.done
    /\ parsed' = [done |-> TRUE, main |-> pickCandidateNumber(raw),
                  groups |-> pickCandidateNumberGroups(raw)]
    /\ UNCHANGED << raw, chart, runVars, reqRef, page, workerVars, term, hist,
                    procVars, sideVars >>

EmptyChart == [bars |-> << >>, labels |-> << >>]

InitParse ==
    /\ raw \in TextsUpTo(MaxRawLen)
    /\ parsed = ParsePending
    /\ chart = [f \in Files |-> EmptyChart]
    /\ InitPage
    /\ InitSide

NextParse == Parse

SpecParse == InitParse /\ [][NextParse]_vars

(***************************************************************************)
(* SpecFusion: one upload, no failure, over every chart of at most MaxBars *)
(* bars with at most MaxOdd labels off the primary one, over the crowded   *)
(* charts of SegCap + 1 bars, one of them faint, and over the chart of     *)
(* ScenarioBChart.                                                         *)
(***************************************************************************)
\* five bars labelled 200, 210, (unreadable), 220, 230
ScenarioBChart ==
    [bars   |-> [j \in 1..5 |-> BarAt(j, 0)],
     labels |-> << [text |-> << "2", "0", "0" >>, conf |-> 90],
                   [text |-> << "2", "1", "0" >>, conf |-> 80],
                   [text |-> << >>, conf |-> 0],
                   [text |-> << "2", "2", "0" >>, conf |-> 70],
                   [text |-> << "2", "3", "0" >>, conf |-> 60] >>]

FusionCharts ==
    UNION {ChartsOf(n, MaxOdd, {0}) : n \in 0..MaxBars}
      \cup ChartsOf(SegCap + 1, 1, 1..(SegCap + 1))
      \cup {ScenarioBChart}

InitFusion ==
    /\ raw = << >>
    /\ parsed = ParsePending
    /\ chart = [f \in Files |-> EmptyChart]
    /\ InitPage
    /\ InitSide

StartFusion == UploadOf(1, FusionCharts)

NextFusion ==
    \/ StartFusion
    \/ UploadDecoded(1)
    \/ InitStep(1)
    \/ EnsureResolved(1)
    \/ SetParametersDone(1)
    \/ RecognizeDone(1)

SpecFusion == InitFusion /\ [][NextFusion]_vars

(***************************************************************************)
(* Spec: the page.  Every file shows an empty chart, a chart of MinMonths  *)
(* readable bars, or that chart with its last label unreadable.            *)
(***************************************************************************)
PageCharts ==
    { EmptyChart }
      \cup { c \in ChartsOf(MinMonths, 1, {0}) :
                /\ \A j \in 1..(MinMonths - 1) : c.labels[j] = PrimaryAnswer
                /\ c.labels[MinMonths].text \in {PrimaryAnswer.text, << >>} }

StartUpload(r) == UploadOf(r, PageCharts)

Init ==
    /\ raw = << >>
    /\ parsed = ParsePending
    /\ chart = [f \in Files |-> EmptyChart]
    /\ InitPage
    /\ InitSide

Next ==
    \/ \E r \in Runs :
          \/ StartUpload(r)
          \/ StartReprocesar(r)
          \/ UploadDecoded(r)
          \/ UploadDecodeFail(r)
          \/ ReprocesarDecoded(r)
          \/ ReprocesarDecodeFail(r)
          \/ EnsureResolved(r)
          \/ EnsureRejected(r)
          \/ SetParametersDone(r)
          \/ SetParametersFail(r)
          \/ RecognizeDone(r)
          \/ RecognizeFail(r)
          \/ ClearAll(r)
    \/ \E p \in Runs : InitStep(p) \/ InitFail(p)
    \/ \E v \in ManualInputs : SetManualMonthly(v)
    \/ TerminateStart
    \/ TerminateFinally

Spec == Init /\ [][Next]_vars

(***************************************************************************)
(* SpecSilent: one upload of a chart of at most MaxBars readable bars,     *)
(* whose engine may stop answering during a ROI.  Every continuation whose *)
(* promise has settled runs, and a timer that has been set fires: weak     *)
(* fairness on the steps of the run.  The user's upload and the engine's   *)
(* silence are under no obligation.                                        *)
(***************************************************************************)
SilentCharts == UNION {ChartsOf(n, 0, {0}) : n \in 0..MaxBars}

StartSilent == UploadOf(1, SilentCharts)

RunSteps ==
    \/ UploadDecoded(1)
    \/ InitStep(1)
    \/ EnsureResolved(1)
    \/ SetParametersDone(1)
    \/ RecognizeDone(1)
    \/ RecognizeTimeout(1)

NextSilent ==
    \/ StartSilent
    \/ RunSteps
    \/ EngineStops

SpecSilent == Init /\ [][NextSilent]_vars /\ WF_vars(RunSteps)

(***************************************************************************)
(* SpecProcess: the processFile page.                                      *)
(***************************************************************************)
SpecProcess == Init /\ [][NextProcess]_vars

(***************************************************************************)
(* SpecGuarded: the page guarded by workerBusyRef.                         *)
(***************************************************************************)
SpecGuarded == Init /\ [][NextGuarded]_vars

\* the per-bar OCR page alone
SpecBarOcr == Init /\ [][NextBarOcr]_vars

(***************************************************************************)
(* SpecCalm: the page while nothing fails, the page stays mounted and the  *)
(* monthly-kWh field stays empty (no decode, init, setParameters or        *)
(* recognize failure; no unmount; no manual entry).                        *)
(***************************************************************************)
NextCalm ==
    \/ \E r \in Runs :
          \/ StartUpload(r)
          \/ StartReprocesar(r)
          \/ UploadDecoded(r)
          \/ ReprocesarDecoded(r)
          \/ EnsureResolved(r)
          \/ SetParametersDone(r)
          \/ RecognizeDone(r)
          \/ ClearAll(r)
    \/ \E p \in Runs : InitStep(p)

SpecCalm == Init /\ [][NextCalm]_vars

(***************************************************************************)
(* Properties.                                                             *)
(***************************************************************************)
\* the numbers written as a contiguous run of the digits of a text
DigitRunValues(text) ==
    LET d == parseDigitsOnly(text)
    IN  {NumberOf(SubSeq(d, i, j)) : i \in 1..Len(d), j \in 1..Len(d)}

\* the numbers pickCandidateNumber of page.tsx tries for a text
TriedNumbers(text) ==
    LET d == parseDigitsOnly(text)
    IN  IF d = << >> THEN {}
        ELSE IF Len(d) <= 4 THEN {NumberOf(d)}
        ELSE {NumberOf(SubSeq(d, Len(d) - k + 1, Len(d))) : k \in 2..4}

\* C1: whatever the raw text, either parser returns null or an integer of
\* [20, 3000] that is written in the text (never a clamped one), and the
\* parser of page.tsx returns null when none of the numbers it tries lies in
\* [20, 3000].
C1_RangeFilter ==
    parsed.done =>
        /\ \A v \in {parsed.main, parsed.groups} :
              \/ v = None
              \/ /\ Len(v) = 1
                 /\ v[1] >= 20 /\ v[1] <= 3000
                 /\ v[1] \in DigitRunValues(raw)
        /\ (\A n \in TriedNumbers(raw) : n < 20 \/ n > 3000) => parsed.main = None
        /\ parsed.main # None => parsed.main[1] \in TriedNumbers(raw)

\* C1 witness: the text "4250" (only candidate above 3000) was parsed to null
C1_Witness ==
    /\ parsed.done
    /\ raw = << "4", "2", "5", "0" >>
    /\ parsed.main = None
    /\ parsed.groups = None

\* a run that has just ended by itself, without exception and not superseded
EndsUncancelled(r) ==
    /\ kind[r] \in {"handleFile", "reprocesar"}
    /\ pc[r] # "done"
    /\ pc'[r] = "done"
    /\ fault'[r] = ""
    /\ myReq[r] # 0
    /\ reqRef = myReq[r]

\* C2: a run (handleFile or reprocesar) that ends with fewer than 4 valid
\* values exposes null for the monthly average and for the annual figure and
\* shows the insufficient-OCR message; and the page never shows a figure
\* together with fewer than 4 months used.
C2_FloorEnforced ==
    /\ [][\A r \in Runs :
            (EndsUncancelled(r) /\ Len(candidates'[r]) < 4) =>
                /\ page'.avgMonthlyOcr = None
                /\ page'.annualOcr = None
                /\ page'.monthsUsed = Len(candidates'[r])
                /\ page'.ocrError = "insufficient"]_vars
    /\ [](page.monthsUsed < 4 => page.avgMonthlyOcr = None /\ page.annualOcr = None)

\* C2 witness: a reprocesar run ended with 3 values and the page shows the
\* insufficient message and no figure
C2_Witness ==
    \E r \in Runs :
        /\ kind[r] = "reprocesar"
        /\ pc[r] = "done"
        /\ outcome[r] = "insufficient"
        /\ Len(candidates[r]) = 3
        /\ page.monthsUsed = 3
        /\ page.ocrError = "insufficient"
        /\ page.avgMonthlyOcr = None

\* C3 as claimed: with 12 values used the annual figure is their exact sum,
\* not estimated; with 4 to 11 it equals (sum / monthsUsed) x 12 exactly and
\* is flagged estimated.
C3_Original ==
    LET n   == page.monthsUsed
        sum == SumSeq(page.usedLast12)
    IN  /\ n = 12 => page.annualOcr = Some(sum) /\ ~page.estimatedAnnual
        /\ (n >= 4 /\ n <= 11) =>
              /\ page.annualOcr # None
              /\ page.annualOcr[1] * n = 12 * sum
              /\ page.estimatedAnnual

\* C3 amended: with 4 to 11 values the annual figure is (sum / monthsUsed) x 12
\* rounded to the nearest integer (halves up).
C3_AnnualRounded ==
    LET n   == page.monthsUsed
        sum == SumSeq(page.usedLast12)
    IN  /\ n = Len(page.usedLast12)
        /\ n = 12 => page.annualOcr = Some(sum) /\ ~page.estimatedAnnual
        /\ (n >= 4 /\ n <= 11) =>
              /\ page.annualOcr # None
              /\ 0 - n <= 2 * (12 * sum - page.annualOcr[1] * n)
              /\ 2 * (12 * sum - page.annualOcr[1] * n) < n
              /\ page.estimatedAnnual
              /\ page.avgMonthlyOcr = Some(Frac(sum, n))

\* C3 witness: 4 to 11 values were committed whose average x 12 is no integer
C3_Witness ==
    /\ page.monthsUsed >= 4 /\ page.monthsUsed <= 11
    /\ page.annualOcr # None
    /\ (12 * SumSeq(page.usedLast12)) % page.monthsUsed # 0

\* the non-null values read above the bars of chart c at the positions of J,
\* left to right
RECURSIVE ValuesAt(_, _, _)
ValuesAt(c, J, j) ==
    IF j > Len(c.bars) THEN << >>
    ELSE LET v == pickCandidateNumber(c.labels[j].text)
         IN  (IF j \in J /\ v # None THEN << v[1] >> ELSE << >>)
                \o ValuesAt(c, J, j + 1)

\* the bars kept by the cap of 18 (the strongest, the leftmost on a tie), and
\* among them the 12 rightmost
KeptBars(c) ==
    {j \in 1..Len(c.bars) :
        Cardinality({i \in 1..Len(c.bars) :
            \/ c.bars[i].strength > c.bars[j].strength
            \/ (c.bars[i].strength = c.bars[j].strength /\ i < j)}) < 18}
RecentBars(c) ==
    {j \in KeptBars(c) : Cardinality({i \in KeptBars(c) : i > j}) < 12}

Finished(r) == pc[r] = "done" /\ outcome[r] \in {"ok", "insufficient"}

\* C4 as claimed: the values used are the rightmost min(12, k) of the k
\* non-null values of all the detected bars.
C4_Original ==
    \A r \in Runs : Finished(r) =>
        LET all == ValuesAt(chart[file[r]], 1..Len(chart[file[r]].bars), 1)
        IN  result[r][1].usedLast12 = SliceLast(all, Min(12, Len(all)))

\* C4 amended: the values used are the non-null values of the bars submitted
\* to recognition, left to right: the 12 rightmost of the (at most 18
\* strongest) detected bars; with 13 bars all readable the oldest is dropped,
\* 12 months are used and the annual figure is their exact sum.
C4_RecentBarsUsed ==
    \A r \in Runs : Finished(r) =>
        LET c    == chart[file[r]]
            all  == ValuesAt(c, 1..Len(c.bars), 1)
            used == result[r][1].usedLast12
        IN  /\ used = ValuesAt(c, RecentBars(c), 1)
            /\ result[r][1].monthsUsed = Len(used)
            /\ (Len(c.bars) = 13 /\ Len(all) = 13) =>
                  /\ used = Tail(all)
                  /\ result[r][1].monthsUsed = 12
                  /\ result[r][1].annualKwh = SumSeq(Tail(all))
                  /\ page.usedLast12 = Tail(all)
                  /\ page.annualOcr = Some(SumSeq(Tail(all)))

\* C4 witness: a run over 13 readable bars has ended and 12 months are used
C4_Witness ==
    /\ Finished(1)
    /\ Len(chart[1].bars) = 13
    /\ Len(ValuesAt(chart[1], 1..13, 1)) = 13
    /\ page.monthsUsed = 12

\* C5: the values used are a contiguous suffix (the last min(12, k)) of the k
\* valid candidates taken in ascending xCenter of their source bar, whatever
\* the values and the confidences are; each candidate carries the xCenter
\* of the bar its value was read above.
C5_OrderedByX ==
    \A r \in Runs : Finished(r) =>
        LET cands == candidates[r]
            k     == Len(cands)
            c     == chart[file[r]]
            used  == result[r][1].usedLast12
            \* the candidate with exactly m - 1 candidates to its left
            atRank(m) == CHOOSE i \in 1..k :
                Cardinality({j \in 1..k : cands[j].xCenter < cands[i].xCenter}) = m - 1
        IN  /\ \A i, j \in 1..k : i # j => cands[i].xCenter # cands[j].xCenter
            /\ \A i \in 1..k : \E j \in 1..Len(c.bars) :
                  /\ cands[i].xCenter = c.bars[j].x0 + c.bars[j].x1
                  /\ pickCandidateNumber(c.labels[j].text) = Some(cands[i].value)
            /\ Len(used) = Min(12, k)
            /\ \A m \in 1..Len(used) :
                  used[m] = cands[atRank(k - Len(used) + m)].value
            /\ page.usedLast12 = used

\* C5 witness: a run has ended whose used values are not in ascending order
\* of magnitude
C5_Witness ==
    /\ Finished(1)
    /\ Len(page.usedLast12) >= 4
    /\ \E i, j \in 1..Len(page.usedLast12) :
          i < j /\ page.usedLast12[i] > page.usedLast12[j]

\* the runs that wrote results or an error to the page
Committed(r) == outcome[r] \in {"ok", "insufficient", "error"}

\* C6 as claimed: an upload that was in flight when a later upload started
\* commits nothing, and once both have ended the page shows the later one.
C6_Original ==
    \A a, b \in Runs :
        ( /\ a < b
          /\ kind[a] = "handleFile" /\ kind[b] = "handleFile"
          /\ a \in hist.superseded
          /\ \A q \in Runs : q > b => pc[q] = "idle" ) =>
            /\ ~Committed(a)
            /\ (pc[a] = "done" /\ pc[b] = "done") =>
                  /\ page.rawFileName = file[b]
                  /\ page.rawPreview \in {NoFile, file[b]}
                  /\ page.graphPreview \in {NoFile, file[b]}

NoInitFailure == \A p \in Runs : promises[p].state # "rejected" /\ ~promises[p].cdn
NoTerminate == term = "idle"
WorkersCreated == {w \in Runs : workers[w] # "none"}

\* C7: while no initialization has failed and terminateTesseractWorker has
\* not run, at most one worker was ever created, at most one init closure
\* was started, and every run that obtained a worker obtained that one.
C7_SingleWorker ==
    (NoInitFailure /\ NoTerminate) =>
        /\ Cardinality(WorkersCreated) <= 1
        /\ Cardinality({p \in Runs : promises[p].state # "unused"}) <= 1
        /\ \A r \in Runs : handle[r] # 0 => WorkersCreated = {handle[r]}
        /\ \A r \in Runs : waitsOn[r] # 0 => pSlot = Some(waitsOn[r])
        /\ wSlot # None => WorkersCreated = {wSlot[1]}

\* C7 witness: two runs have obtained the same worker, the second one
\* while the first was still waiting for its initialization
C7_Witness ==
    \E r, q \in Runs :
        /\ r # q
        /\ handle[r] # 0 /\ handle[q] = handle[r]
        /\ waitsOn[r] # 0 /\ waitsOn[q] = waitsOn[r]
        /\ owner[r] /\ ~owner[q]
        /\ Cardinality(WorkersCreated) = 1

\* C8 as claimed: once a run has hit a failed initialization or a failed
\* recognize call, it has ended with its error shown (unless superseded) and
\* the engine instance it failed on is cached in neither slot.
C8_Original ==
    \A r \in Runs : fault[r] \in {"init", "recognize"} =>
        LET w == IF fault[r] = "init" THEN waitsOn[r] ELSE handle[r]
        IN  /\ pc[r] = "done"
            /\ outcome[r] \in {"error", "canceled"}
            /\ wSlot # Some(w)
            /\ pSlot # Some(w)

\* C9 as claimed: when the image of an upload fails to decode, an error
\* message is on the page.
C9_Original ==
    [][\A r \in Runs :
          (kind[r] = "handleFile" /\ fault[r] = "" /\ fault'[r] = "decode")
              => page'.ocrError # ""]_vars

\* C10 as claimed: a failed recognize call on one ROI never ends the run
\* in Error.
C10_Original ==
    \A r \in Runs : fault[r] = "recognize" =>
        /\ outcome[r] # "error"
        /\ page.ocrError # "recognize"

\* C11: a null parse does not stop the loop.  When a non-cancelled run has
\* ended, every segment submitted to recognition got exactly one recognize
\* call, the calls were issued left to right, and the series is exactly the
\* non-null results in that order; on the chart 200, 210, (unreadable), 220,
\* 230 this gives 4 months, annual = average x 12 = 2580, estimated, ready.
C11_LoopRunsThrough ==
    \A r \in Runs : Finished(r) =>
        LET c     == chart[file[r]]
            calls == hist.calls[r]
            sub   == {j \in 1..Len(c.bars) :
                        \E i \in 1..Len(segs[r]) : segs[r][i].x0 = c.bars[j].x0}
        IN  /\ Len(calls) = Len(segs[r])
            /\ \A i \in 1..Len(calls) : calls[i] = segs[r][i].x0
            /\ \A i, j \in 1..Len(calls) : i < j => calls[i] < calls[j]
            /\ result[r][1].detectedAll = ValuesAt(c, sub, 1)
            /\ c = ScenarioBChart =>
                  /\ page.usedLast12 = << 200, 210, 220, 230 >>
                  /\ page.monthsUsed = 4
                  /\ page.annualOcr = Some(2580)
                  /\ page.estimatedAnnual
                  /\ page.ocrStatus = "ready"
                  /\ page.ocrError = ""

\* C11 witness: the run on the chart 200, 210, (unreadable), 220, 230 has
\* ended after 5 recognize calls with 4 values
C11_Witness ==
    /\ Finished(1)
    /\ chart[1] = ScenarioBChart
    /\ Len(hist.calls[1]) = 5
    /\ Len(candidates[1]) = 4

\* C12 as claimed: while the manual field holds a positive number, the
\* monthly figure is that number and the annual kWh that sizes the PV system
\* is 12 times it, whatever the OCR result; while the field is empty or not
\* positive, the monthly figure is the OCR average (0 when there is none).
C12_Original ==
    LET m   == page.manualMonthly
        ocrAvg == IF page.avgMonthlyOcr # None THEN page.avgMonthlyOcr[1]
                  ELSE Frac(0, 1)
    IN  IF m # None /\ m[1] > 0
        THEN /\ effectiveMonthly(page) = Frac(m[1], 1)
             /\ sizingAnnualKwh(page) = Frac(12 * m[1], 1)
        ELSE effectiveMonthly(page) = ocrAvg

\* C13 as claimed: the confidence processFile reports with an ok summary is
\* the arithmetic mean of the confidences of exactly the reads whose values
\* are in used12MostRecent.
C13_Original ==
    ocr.status = "ok" =>
        LET n     == Len(ocr.used12MostRecent)
            used  == SliceLast(proc.reads, n)
            confs == [j \in 1..n |-> used[j].conf]
        IN  /\ ocr.used12MostRecent = [j \in 1..n |-> used[j].value]
            /\ ocr.confidencePct.num * n = SumSeq(confs) * ocr.confidencePct.den

\* C14 as claimed: a run whose image shows fewer than 4 bar segments starts
\* no init closure, creates no worker and makes no recognize call, and it
\* ends Insufficient.
C14_Original ==
    \A r \in Runs :
        ( /\ pc[r] \notin {"idle", "decode"}
          /\ kind[r] \in {"handleFile", "reprocesar"}
          /\ Len(findBarSegments(chart[file[r]])) < 4 ) =>
            /\ hist.calls[r] = << >>
            /\ waitsOn[r] = 0
            /\ \A p \in Runs : promises[p].state = "unused"
            /\ WorkersCreated = {}
            /\ pc[r] = "done" => outcome[r] = "insufficient"

\* a run makes its ensureTesseractWorker call in this step
EnsureCalled == \E r \in Runs : pc[r] = "decode" /\ pc'[r] = "ensure"

\* C15 as claimed: when the unmount cleanup ends, both slots are null and
\* every worker created so far is terminated; and from then on the slots
\* stay null as long as no run calls ensureTesseractWorker.
C15_Original ==
    [][ /\ (term # "done" /\ term' = "done") =>
              /\ wSlot' = None /\ pSlot' = None
              /\ \A w \in Runs : workers'[w] \in {"none", "terminated"}
        /\ (term = "done" /\ wSlot = None /\ pSlot = None /\ ~EnsureCalled) =>
              (wSlot' = None /\ pSlot' = None) ]_vars

Text42500 == << "4", "2", "5", "0", "0" >>
Text45000 == << "4", "5", "0", "0", "0" >>

\* C16 as claimed: the text "42500" parses to null.
C16_Original ==
    (parsed.done /\ raw = Text42500) =>
        parsed.main = None /\ parsed.groups = None

\* C16 amended: the text "42500" parses to 2500, the number of its last four
\* digits; a merged 5-digit run parses to null exactly when none of its
\* last-4, last-3, last-2 digit suffixes lies in [20, 3000], as for "45000".
C16_SuffixAccepted ==
    parsed.done =>
        /\ raw = Text42500 => parsed.main = Some(2500) /\ parsed.groups = Some(2500)
        /\ raw = Text45000 => parsed.main = None
        /\ (Len(raw) = 5 /\ \A i \in 1..5 : raw[i] \in DigitChars) =>
              ( parsed.main = None <=>
                  \A k \in 2..4 :
                      LET n == NumberOf(SubSeq(raw, 6 - k, 5))
                      IN  n < 20 \/ n > 3000 )

\* C16 witness: "42500" was parsed to 2500
C16_Witness ==
    /\ parsed.done
    /\ raw = Text42500
    /\ parsed.main = Some(2500)

\* the digits of a text, in order
RECURSIVE StripNonDigits(_)
StripNonDigits(t) ==
    IF t = << >> THEN << >>
    ELSE (IF Head(t) \in DigitChars THEN << Head(t) >> ELSE << >>)
            \o StripNonDigits(Tail(t))

Accept(n) == IF n >= 20 /\ n <= 3000 THEN Some(n) ELSE None

\* the rule of the claim, applied to a text
RuleResult(t) ==
    LET d  == StripNonDigits(t)
        n  == Len(d)
        s4 == Accept(NumberOf(SubSeq(d, n - 3, n)))
        s3 == Accept(NumberOf(SubSeq(d, n - 2, n)))
        s2 == Accept(NumberOf(SubSeq(d, n - 1, n)))
    IN  IF n = 0 THEN None
        ELSE IF n <= 4 THEN Accept(NumberOf(d))
        ELSE IF s4 # None THEN s4
        ELSE IF s3 # None THEN s3
        ELSE s2

\* C17 as claimed: both pickCandidateNumber functions follow the rule: strip
\* the non-digits, take a run of at most 4 digits whole, a longer one by its
\* last-4, last-3, last-2 suffixes in that order, and accept only [20, 3000].
C17_Original ==
    parsed.done =>
        /\ parsed.main = RuleResult(raw)
        /\ parsed.groups = RuleResult(raw)

\* C17 amended: pickCandidateNumber of page.tsx follows the rule ("8 2 5"
\* gives 825); pickCandidateNumber of part_002 first looks in the raw text
\* for groups of 2 to 4 adjacent digits, returns the first such group in
\* [100, 999], else the first in [20, 3000], and follows the rule only when
\* no group is in [20, 3000].
C17_RuleOfPage ==
    parsed.done =>
        LET groups  == MatchGroups(raw, 1)
            inRange == {i \in 1..Len(groups) : Accept(NumberOf(groups[i])) # None}
            three   == {i \in inRange : NumberOf(groups[i]) >= 100
                                         /\ NumberOf(groups[i]) <= 999}
            first(S) == CHOOSE i \in S : \A j \in S : i <= j
        IN  /\ parsed.main = RuleResult(raw)
            /\ raw = << "8", " ", "2", " ", "5" >> => parsed.main = Some(825)
            /\ parsed.groups =
                 IF three # {} THEN Some(NumberOf(groups[first(three)]))
                 ELSE IF inRange # {} THEN Some(NumberOf(groups[first(inRange)]))
                 ELSE RuleResult(raw)

\* C17 witness: "8 2 5" was parsed to 825 by both functions
C17_Witness ==
    /\ parsed.done
    /\ raw = << "8", " ", "2", " ", "5" >>
    /\ parsed.main = Some(825)
    /\ parsed.groups = Some(825)

TerminalStatus == {"ok", "insufficient", "error"}

\* C19: in every step of the processFile page, the status becomes working
\* only from idle or a terminal status and only as a run starts (busy goes
\* from false to true, one more run); a working status changes only to one
\* of ok, insufficient, error, with busy false from then on; a terminal
\* status changes only to working (a new run) or to idle (clearAll); and in
\* every state busy is true exactly when the status is working, so that a
\* run that has finished, by return or by exception, never leaves working
\* behind.
C19_StatusMachine ==
    /\ [][ /\ (ocr'.status = "working" /\ ocr.status # "working")
                => ( /\ ocr.status \in TerminalStatus \cup {"idle"}
                     /\ ~busy /\ busy'
                     /\ proc'.runs = proc.runs + 1 )
           /\ (ocr.status = "working" /\ ocr' # ocr)
                => ( /\ ocr'.status \in TerminalStatus
                     /\ ~busy'
                     /\ proc'.pc = "done" )
           /\ (ocr.status \in TerminalStatus /\ ocr' # ocr)
                => ocr'.status \in {"working", "idle"}
           /\ (proc'.pc = "done" /\ proc.pc # "done")
                => (ocr'.status \in TerminalStatus /\ ~busy')
         ]_vars
    /\ [](busy <=> ocr.status = "working")
    /\ [](proc.pc = "done" => ~busy /\ ocr.status # "working")

\* C19 witness: the second run, started from a terminal status, ended in the
\* catch
C19_Witness ==
    /\ proc.runs = 2
    /\ proc.pc = "done"
    /\ ocr.status = "error"
    /\ ~busy

\* C20: whenever the engine has stopped answering while a run is in a ROI
\* step (waiting for setParameters or for recognize), that run eventually
\* ends with outcome error.
C20_Original ==
    \A r \in Runs :
        (hist.silent /\ pc[r] \in {"setParameters", "recognize"})
            ~> (pc[r] = "done" /\ outcome[r] = "error")

TokenDist2(t, u) ==
    IF TokenXC2(t) >= TokenXC2(u) THEN TokenXC2(t) - TokenXC2(u)
    ELSE TokenXC2(u) - TokenXC2(t)

\* C21: of the result of dedupeByX, no two entries have x-centers within
\* 18 px of each other (two such candidates are duplicates, one is dropped);
\* every input token is kept or has a kept token within 18 px whose
\* confidence is at least its own; a token with no other token within 18 px
\* is kept; and the result is sorted by ascending x-center.
C21_Original ==
    lum.done =>
        LET out == lum.deduped
            inp == lum.tokens
            InOut(t) == \E j \in 1..Len(out) : out[j] = t
        IN  /\ \A i, j \in 1..Len(out) :
                  i < j => /\ TokenXC2(out[i]) <= TokenXC2(out[j])
                           /\ TokenDist2(out[i], out[j]) > 2 * BucketSize
            /\ \A j \in 1..Len(out) : \E i \in 1..Len(inp) : inp[i] = out[j]
            /\ \A i \in 1..Len(inp) :
                  \/ InOut(inp[i])
                  \/ \E j \in 1..Len(out) :
                        /\ TokenDist2(inp[i], out[j]) <= 2 * BucketSize
                        /\ out[j].conf >= inp[i].conf

\* C28: when the valid labels of an extraction (the deduped tokens that
\* pass the value and position filters) lie above different bars, any two
\* of them at least two buckets (36 px) apart, valuesUsed lists the value
\* of every one of them in left-to-right order, equal or not.
C28_Original ==
    lum.done =>
        LET valid == SelectSeq(lum.deduped, IsCandidate)
        IN  (\A i, j \in 1..Len(valid) :
                i # j => TokenDist2(valid[i], valid[j]) >= 4 * BucketSize)
            => lum.valuesUsed = [j \in 1..Len(valid) |-> valid[j].value]

\* the run is inside ocrSingleNumber or has been: a setParameters or
\* recognize call on its worker is in flight or was issued
UsesWorker(r) == pc[r] \in {"setParameters", "recognize"} \/ hist.calls[r] # << >>

\* C22: in every interleaving of runs, a run that issues a call of
\* ocrSingleNumber on a worker holds a worker whose init closure has gone
\* through every stage of InitStages and has resolved; and the stages of an
\* init closure are passed one at a time in the order of InitStages (load,
\* loadLanguage, initialize, reinitialize, setParameters), none skipped.
C22_InitBeforeRecognize ==
    /\ [](\A r \in Runs :
            UsesWorker(r) =>
                /\ handle[r] # 0
                /\ promises[handle[r]].state = "resolved"
                /\ promises[handle[r]].stage = Len(InitStages)
                /\ workers[handle[r]] = "ready")
    /\ [][\A p \in Runs :
            /\ promises'[p].stage \in {promises[p].stage, promises[p].stage + 1}
            /\ (promises'[p].state = "resolved" /\ promises[p].state # "resolved")
                  => InitStages[promises[p].stage] = "setParameters"]_vars

\* C22 witness: a run is in recognize on a worker it took from the cache
\* while another run, which waited for the initialization, is in a ROI too
C22_Witness ==
    \E r, q \in Runs :
        /\ r # q
        /\ pc[r] = "recognize" /\ waitsOn[r] = 0
        /\ pc[q] \in {"setParameters", "recognize"} /\ waitsOn[q] # 0
        /\ handle[r] = handle[q]

\* C23: the rect detectGraphZone returns has w > 0 and h > 0 and lies inside
\* the tight crop (of the size of the downscaled image, the scale being 1).
C23_Original ==
    zone.done =>
        /\ zone.rect.w > 0
        /\ zone.rect.h > 0
        /\ zone.rect.x >= 0
        /\ zone.rect.y >= 0
        /\ zone.rect.x + zone.rect.w <= zone.inp.w
        /\ zone.rect.y + zone.rect.h <= zone.inp.h

\* C24: every segment detectBars returns has x0 < x1 and a width of 6 px to
\* round(0.12 W) px, and each segment lies strictly to the right of the one
\* before it, merged segments included.
C24_Original ==
    det.done =>
        LET out == det.segments
        IN  /\ \A j \in 1..Len(out) :
                  /\ out[j].x0 < out[j].x1
                  /\ out[j].x1 - out[j].x0 + 1 >= MinBarWidth
                  /\ out[j].x1 - out[j].x0 + 1 <= MaxBarWidth
            /\ \A j \in 1..(Len(out) - 1) : out[j].x1 < out[j + 1].x0

\* C25: once clearAll has run after a handleFile or reprocesar run was
\* started, no later step of that run changes the page state.
C25_Original ==
    [][\A a \in Runs :
          ( /\ kind[a] \in {"handleFile", "reprocesar"}
            /\ \E c \in Runs : c > a /\ kind[c] = "clearAll"
            /\ pc'[a] # pc[a] ) => page' = page]_vars

\* the ensureTesseractWorker call of run r resolves in this step
EnsureResolves(r) ==
    pc[r] = "ensure" /\ pc'[r] # "ensure" /\ handle'[r] \in DOMAIN workers
       /\ ~(waitsOn[r] # 0 /\ promises[waitsOn[r]].state = "rejected")

\* C26 as claimed: under every interleaving of ensureTesseractWorker and
\* terminateTesseractWorker, no ensure call resolves to a worker whose
\* terminate() has already been called, and no recognize call is issued on
\* such a worker.
C26_Original ==
    [][ \A r \in Runs :
          /\ EnsureResolves(r) => workers[handle'[r]] # "terminated"
          /\ Len(hist'.calls[r]) > Len(hist.calls[r]) =>
                 workers[handle[r]] # "terminated" ]_vars

\* the engine read a number above 3000 in the label ROI d
ReadsOver3000(d) ==
    \E j \in 1..Len(d.words) : NumberOf(parseDigitsOnly(d.words[j].text)) > 3000

\* C29 as claimed: when ocrBars has returned or thrown, the worker it
\* created has been terminated, also when a recognize call rejected.
C29_Original ==
    (ob.pc = "done" /\ ob.worker # "none") => ob.worker = "terminated"

\* C30 as claimed: when a handleFile run ends with a result and the engine
\* read a label above 3000 kWh above one of the bars, commercialFlag is set.
C30_Original ==
    ( /\ ob.pc = "done" /\ ob.ocrError = ""
      /\ \E j \in 1..Len(ob.rois) : ReadsOver3000(ob.rois[j]) ) =>
        ob.commercialFlag

\* C27: on the page guarded by workerBusyRef, whenever processing is false
\* and a file is named, the preview is that file's and each OCR output
\* shown (the monthly average, the annual figure, the months used, the
\* message) is empty or was set by the run on the file named.
C27_Original ==
    (~wb.processing /\ wb.fileName # 0) =>
        /\ wb.pagePreviewUrl = wb.fileName
        /\ wb.avgMonthlyKwh \in {0, wb.fileName}
        /\ wb.annualKwh \in {0, wb.fileName}
        /\ wb.monthsUsed \in {0, wb.fileName}
        /\ wb.ocrMsg \in {0, wb.fileName}
=============================================================================
